---- MODULE Spec2Model ----
(***************************************************************************)
(* A model of scripts/release.sh (ShellDeck): the release flow             *)
(* (version bump, safety checks, version write, commit/tag/push), the CI   *)
(* monitor and the status command, over an abstract git repository, a      *)
(* remote and a CI provider.                                               *)
(*                                                                         *)
(* Text is modelled as sequences of one-character strings, so that the     *)
(* script's grep/sed/read/arithmetic steps are computed as bash computes   *)
(* them and not as identities.                                             *)
(***************************************************************************)
EXTENDS Integers, Sequences, FiniteSets, TLC

\* ------------------------------------------------------------------ bounds

\* Longest digit string of a version component drawn in the bump specification.
MaxComponentLen == 2
\* Polls of the monitor loop after which the model stops polling.
MaxPolls == 3
\* How many times the monitor is started on the same tag.
MaxInvocations == 2
\* The longest command line.
MaxArgs == 3
\* The longest time a duration is formatted for (two hours and a bit).
MaxSeconds == 7300

\* ------------------------------------------------------- program constants

\* max_attempts of the run discovery loop.
max_attempts == 30
\* sleep between two lookups of the discovery loop.
DiscoverSleep == 10
\* sleep between two polls of the monitor loop.
PollSleep == 15

\* -------------------------------------------------------------------- text

Digit == {"0", "1", "2", "3", "4", "5", "6", "7", "8", "9"}

DigitVal(c) ==
    CASE c = "0" -> 0 [] c = "1" -> 1 [] c = "2" -> 2 [] c = "3" -> 3
      [] c = "4" -> 4 [] c = "5" -> 5 [] c = "6" -> 6 [] c = "7" -> 7
      [] c = "8" -> 8 [] c = "9" -> 9

DigitChar(n) ==
    CASE n = 0 -> "0" [] n = 1 -> "1" [] n = 2 -> "2" [] n = 3 -> "3"
      [] n = 4 -> "4" [] n = 5 -> "5" [] n = 6 -> "6" [] n = 7 -> "7"
      [] n = 8 -> "8" [] n = 9 -> "9"

\* The index of the first c in s, 0 when there is none.
IdxOf(s, c) ==
    IF \E i \in 1..Len(s) : s[i] = c
    THEN CHOOSE i \in 1..Len(s) : s[i] = c /\ \A j \in 1..(i - 1) : s[j] # c
    ELSE 0

\* The index of the last c in s before position n (exclusive), 0 when none.
LastIdxBefore(s, c, n) ==
    IF \E i \in 1..(n - 1) : s[i] = c
    THEN CHOOSE i \in 1..(n - 1) : s[i] = c /\ \A j \in (i + 1)..(n - 1) : s[j] # c
    ELSE 0

StartsWith(s, p) == Len(s) >= Len(p) /\ SubSeq(s, 1, Len(p)) = p

RECURSIVE ValueInBase(_, _)
\* The number a digit string denotes in the given base.
ValueInBase(s, base) ==
    IF s = <<>> THEN 0
    ELSE ValueInBase(SubSeq(s, 1, Len(s) - 1), base) * base + DigitVal(s[Len(s)])

RECURSIVE ToDecimal(_)
\* printf-style decimal rendering of a natural number.
ToDecimal(n) ==
    IF n < 10 THEN <<DigitChar(n)>>
    ELSE Append(ToDecimal(n \div 10), DigitChar(n % 10))

\* Letters of the texts the model draws.
Letter == {"a", "b", "x"}

\* A shell variable name: a letter first, then letters and digits.
IsIdentifier(s) ==
    /\ s # <<>> /\ s[1] \in Letter
    /\ \A i \in 1..Len(s) : s[i] \in Letter \cup Digit

\* Bash arithmetic evaluation of a variable's text inside $(( )): an empty
\* value is 0, a digit string with a leading 0 is octal (a digit 8 or 9 is then
\* "value too great for base"), any other digit string is decimal. A name is
\* read as a variable, which is unbound here (set -u ends the script); any
\* other text is a syntax error. ok: a value came out; unbound: set -u fired.
ArithValue(s) ==
    IF s = <<>> THEN [ok |-> TRUE, unbound |-> FALSE, val |-> 0]
    ELSE IF IsIdentifier(s) THEN [ok |-> FALSE, unbound |-> TRUE, val |-> 0]
    ELSE IF \E i \in 1..Len(s) : s[i] \notin Digit
         THEN [ok |-> FALSE, unbound |-> FALSE, val |-> 0]
    ELSE IF Len(s) > 1 /\ s[1] = "0"
         THEN IF \E i \in 1..Len(s) : s[i] \in {"8", "9"}
              THEN [ok |-> FALSE, unbound |-> FALSE, val |-> 0]
              ELSE [ok |-> TRUE, unbound |-> FALSE, val |-> ValueInBase(s, 8)]
    ELSE [ok |-> TRUE, unbound |-> FALSE, val |-> ValueInBase(s, 10)]

\* IFS='.' read -r MAJOR MINOR PATCH: the first two dot-separated fields and
\* the remainder; a single trailing delimiter of the remainder is dropped.
ReadFields(s) ==
    LET i1 == IdxOf(s, ".") IN
    IF i1 = 0 THEN <<s, <<>>, <<>>>>
    ELSE LET a  == SubSeq(s, 1, i1 - 1)
             r1 == SubSeq(s, i1 + 1, Len(s))
             i2 == IdxOf(r1, ".")
         IN IF i2 = 0 THEN <<a, r1, <<>>>>
            ELSE LET b  == SubSeq(r1, 1, i2 - 1)
                     r2 == SubSeq(r1, i2 + 1, Len(r1))
                     c  == IF r2 # <<>> /\ IdxOf(r2, ".") = Len(r2)
                           THEN SubSeq(r2, 1, Len(r2) - 1) ELSE r2
                 IN <<a, b, c>>

Dotted(a, b, c) == a \o <<".">> \o b \o <<".">> \o c

\* ---------------------------------------------------------------- manifest

VersionWord == <<"v", "e", "r", "s", "i", "o", "n">>
VersionPrefix == VersionWord \o <<" ", "=", " ", "\"">>

\* sed 's/.*"\(.*\)".*/\1/' on one line: the text between the last two double
\* quotes; a line with fewer than two quotes is printed unchanged.
SedExtractQuoted(line) ==
    LET q2 == LastIdxBefore(line, "\"", Len(line) + 1)
        q1 == LastIdxBefore(line, "\"", q2)
    IN IF q2 = 0 \/ q1 = 0 THEN line ELSE SubSeq(line, q1 + 1, q2 - 1)

\* grep '^version' FILE | head -1
FirstVersionLine(m) ==
    IF \E i \in 1..Len(m) : StartsWith(m[i], VersionWord)
    THEN LET i == CHOOSE k \in 1..Len(m) :
                     /\ StartsWith(m[k], VersionWord)
                     /\ \A j \in 1..(k - 1) : ~StartsWith(m[j], VersionWord)
         IN <<m[i]>>
    ELSE <<>>

\* current_version: under pipefail the pipeline fails when grep selects no
\* line, and the assignment from the command substitution then fails.
current_version(m) ==
    LET sel == FirstVersionLine(m) IN
    IF sel = <<>> THEN [ok |-> FALSE, out |-> <<>>]
    ELSE [ok |-> TRUE, out |-> SedExtractQuoted(sel[1])]


\* The regular expression of the version write, ^version = "CUR", on one
\* line: CUR is read as a regular expression, so each of its dots matches any
\* character.
WritePattern(cur) == VersionPrefix \o cur \o <<"\"">>

MatchesWritePattern(line, cur) ==
    LET pat == WritePattern(cur) IN
    /\ Len(line) >= Len(pat)
    /\ \A i \in 1..Len(pat) : pat[i] = line[i] \/ (pat[i] = "." /\ i > Len(VersionPrefix))

\* sed -i "s/^version = \"$CURRENT_VERSION\"/version = \"$NEW_VERSION\"/":
\* every line the pattern matches gets its matched prefix replaced.
SedWriteLine(line, cur, new) ==
    IF MatchesWritePattern(line, cur)
    THEN WritePattern(new) \o SubSeq(line, Len(WritePattern(cur)) + 1, Len(line))
    ELSE line

sed_write(m, cur, new) == [i \in 1..Len(m) |-> SedWriteLine(m[i], cur, new)]

\* ------------------------------------------------------------ version bump

BumpType == {"patch", "minor", "major"}

\* The text of a field after VAR=$((VAR + 1)).
Incremented(field) == ToDecimal(ArithValue(field).val + 1)

\* The outcome of the case on BUMP_TYPE when its arithmetic expansion is that
\* of field, and bumped is the version a successful expansion leads to: on an
\* arithmetic error bash prints the error, drops the whole case command and
\* goes on with the next one, MAJOR, MINOR and PATCH as read (bash 5.2:
\* 0.1.08 stays 0.1.08, 0.09.1 with minor stays 0.09.1); an unbound variable
\* ends the script under set -u.
BumpOutcome(f, field, bumped) ==
    LET a == ArithValue(field) IN
    IF a.ok THEN [ok |-> TRUE, ver |-> bumped]
    ELSE IF a.unbound THEN [ok |-> FALSE, ver |-> <<>>]
    ELSE [ok |-> TRUE, ver |-> Dotted(f[1], f[2], f[3])]

\* The bump with the reset of the lower fields forgotten.
NewVersionNoReset(cur, kind) ==
    LET f == ReadFields(cur) IN
    CASE kind = "patch" -> BumpOutcome(f, f[3], Dotted(f[1], f[2], Incremented(f[3])))
      [] kind = "minor" -> BumpOutcome(f, f[2], Dotted(f[1], Incremented(f[2]), f[3]))
      [] kind = "major" -> BumpOutcome(f, f[1], Dotted(Incremented(f[1]), f[2], f[3]))

\* IFS='.' read, the case on BUMP_TYPE and NEW_VERSION="${MAJOR}.${MINOR}.${PATCH}":
\* only the bumped field goes through arithmetic, the fields to its left are
\* copied as text. ok is FALSE when the script ends here.
NewVersion(cur, kind) ==
    LET f == ReadFields(cur)
        MAJOR == f[1]
        MINOR == f[2]
        PATCH == f[3]
    IN CASE kind = "patch" ->
              BumpOutcome(f, PATCH, Dotted(MAJOR, MINOR, Incremented(PATCH)))
         [] kind = "minor" ->
              BumpOutcome(f, MINOR, Dotted(MAJOR, Incremented(MINOR), <<"0">>))
         [] kind = "major" ->
              BumpOutcome(f, MAJOR, Dotted(Incremented(MAJOR), <<"0">>, <<"0">>))

\* TAG="v${NEW_VERSION}"
TagOf(ver) == <<"v">> \o ver

\* ---------------------------------------------------- manifests of the model

V011 == <<"0", ".", "1", ".", "1">>

PackageLine == <<"[", "p", "]">>
DepsLine == <<"[", "d", "]">>
EditLine == <<"#", "e">>
VersionLine(v) == VersionPrefix \o v \o <<"\"">>
NoSpaceVersionLine(v) == VersionWord \o <<"=", "\"">> \o v \o <<"\"">>

\* version = "V" in the package table.
StdManifest(v) == <<PackageLine, VersionLine(v), DepsLine>>
\* version="V": the same TOML, written without the spaces.
NoSpaceManifest(v) == <<PackageLine, NoSpaceVersionLine(v), DepsLine>>
\* A dependency table that pins a dependency at the same version text.
TwoVersionManifest(v) == <<PackageLine, VersionLine(v), DepsLine, VersionLine(v)>>

Manifests == {StdManifest(V011), NoSpaceManifest(V011), TwoVersionManifest(V011)}

\* The package version cargo reads from the manifest (any TOML spacing).
CargoPackageVersion(m) ==
    IF FirstVersionLine(m) = <<>> THEN <<>> ELSE SedExtractQuoted(FirstVersionLine(m)[1])

\* ------------------------------------------------------- jobs of a CI run

\* A job as the CI provider reports it: a name, a status, a conclusion (the
\* status and conclusion words are single symbols of the text).
NoJob == [name |-> <<>>, status |-> <<>>, conclusion |-> <<>>]

\* jq -r '.jobs[] | "\(.name)|\(.status)|\(.conclusion)"': one line per job.
JobLine(j) == j.name \o <<"|">> \o j.status \o <<"|">> \o j.conclusion

\* IFS='|' read -r name jstatus jconclusion: the first two fields and the
\* remainder of the line; a single trailing delimiter of the remainder is
\* dropped.
ReadJobFields(s) ==
    LET i1 == IdxOf(s, "|") IN
    IF i1 = 0 THEN <<s, <<>>, <<>>>>
    ELSE LET a  == SubSeq(s, 1, i1 - 1)
             r1 == SubSeq(s, i1 + 1, Len(s))
             i2 == IdxOf(r1, "|")
         IN IF i2 = 0 THEN <<a, r1, <<>>>>
            ELSE LET b  == SubSeq(r1, 1, i2 - 1)
                     r2 == SubSeq(r1, i2 + 1, Len(r1))
                     c  == IF r2 # <<>> /\ IdxOf(r2, "|") = Len(r2)
                           THEN SubSeq(r2, 1, Len(r2) - 1) ELSE r2
                 IN <<a, b, c>>

\* case "$jconclusion" in ... *) case "$jstatus" in ...: the icon, by name.
Icon(jstatus, jconclusion) ==
    CASE jconclusion = <<"success">> -> "success"
      [] jconclusion = <<"failure">> -> "failure"
      [] jconclusion = <<"cancelled">> -> "cancelled"
      [] jconclusion = <<"skipped">> -> "skipped"
      [] jstatus = <<"in_progress">> -> "running"
      [] jstatus = <<"queued">> -> "queued"
      [] OTHER -> "unknown"

\* ------------------------------------------------------- the update worker

\* JavaScript values, as far as the handler looks at them.
Undefined == [kind |-> "undefined"]
JsNull == [kind |-> "null"]
JsNumber == [kind |-> "number"]
JsText(t) == [kind |-> "string", text |-> t]
JsFunction == [kind |-> "function"]
JsObject(props) == [kind |-> "object", props |-> props]

\* Properties every object inherits from Object.prototype.
ObjectPrototype == {"constructor", "toString", "hasOwnProperty"}

\* value.name and value[name]: a TypeError on null and undefined; an own
\* property, else an inherited one, else undefined.
Get(value, name) ==
    IF value.kind \in {"null", "undefined"} THEN [threw |-> TRUE, value |-> Undefined]
    ELSE IF value.kind = "object" /\ name \in DOMAIN value.props
         THEN [threw |-> FALSE, value |-> value.props[name]]
    ELSE IF name \in ObjectPrototype THEN [threw |-> FALSE, value |-> JsFunction]
    ELSE [threw |-> FALSE, value |-> Undefined]

\* !value is false.
Truthy(value) ==
    /\ value.kind \notin {"null", "undefined"}
    /\ value.kind = "string" => value.text # ""

\* What KV holds under the key: nothing (get returns null), or a text that is
\* JSON for a value or is not JSON at all.
NoValue == [stored |-> FALSE, text |-> "", json |-> FALSE, value |-> Undefined]
StoredText(t) == [stored |-> TRUE, text |-> t, json |-> FALSE, value |-> Undefined]
StoredJson(v) == [stored |-> TRUE, text |-> "json", json |-> TRUE, value |-> v]

\* JSON.parse(raw): the value, or a SyntaxError.
JsonParse(raw) == [threw |-> ~raw.json, value |-> raw.value]

NoRequest == [method |-> "", path |-> "", platform |-> Undefined]
NoResponse == [done |-> FALSE, threw |-> FALSE, status |-> 0, body |-> Undefined]

Responded(status, body) == [done |-> TRUE, threw |-> FALSE, status |-> status, body |-> body]
Thrown == [done |-> TRUE, threw |-> TRUE, status |-> 0, body |-> Undefined]

\* The part of fetch for /api/releases/latest.
LatestRelease(req, store) ==
    IF ~Truthy(req.platform) THEN Responded(400, JsText("Missing 'platform' query parameter"))
    ELSE IF ~store.stored \/ store.text = ""
         THEN Responded(404, JsText("No release manifest found"))
    ELSE IF JsonParse(store).threw THEN Responded(500, JsText("Corrupt manifest data"))
    ELSE LET manifest == JsonParse(store).value
             platforms == Get(manifest, "platforms")
         IN IF platforms.threw THEN Thrown
            ELSE LET platformData == Get(platforms.value, req.platform.text) IN
                 IF platformData.threw THEN Thrown
                 ELSE IF ~Truthy(platformData.value)
                      THEN Responded(404, JsText("No release available for platform"))
                 ELSE Responded(200,
                        JsObject([version |-> Get(manifest, "version").value,
                                  url |-> Get(platformData.value, "url").value,
                                  sha256 |-> Get(platformData.value, "sha256").value,
                                  size |-> Get(platformData.value, "size").value,
                                  pub_date |-> Get(manifest, "pub_date").value]))

\* fetch(request, env)
Fetch(req, store) ==
    IF req.method = "OPTIONS" THEN Responded(204, JsNull)
    ELSE IF req.path = "/health" THEN Responded(200, JsText("ok"))
    ELSE IF req.path = "/api/releases/latest" THEN LatestRelease(req, store)
    ELSE Responded(404, JsText("Not Found"))

\* No second invocation has been started.
NoOther == [pc |-> "none", tags |-> {}, commit |-> 0]

\* ------------------------------------------------------------------- state

VARIABLES
    \* the invocation (one shell process)
    pc,               \* position in the script
    args,             \* the command line of the invocation
    argv,             \* "$@": the arguments the parser has not consumed yet
    cmd,              \* COMMAND
    invocation,       \* how many times the script has been started
    lsRemoteFailed,   \* git ls-remote of the remote tag check failed
    BUMP_TYPE, NO_MONITOR, CMD_ARG,
    CURRENT_VERSION, NEW_VERSION, TAG,
    CONFIRM,          \* the answer read last at a [y/N] or [Y/n] prompt
    exitCode,         \* -1 while the script runs
    err,              \* which message the script died with
    steps,            \* mutating commands this release invocation has run, in order
    pre,              \* manifest, lockfile and tree at the start of the invocation
    \* the local repository
    wtToml, wtLock,   \* working tree: Cargo.toml, Cargo.lock
    idxToml, idxLock, \* index: Cargo.toml, Cargo.lock
    otherDirty,       \* unstaged changes in other tracked files
    otherStaged,      \* staged changes in other tracked files
    branch, head, commits, originMain, localTags,
    \* the remote
    remoteBranch, remoteTags,
    \* the CI provider
    ciRuns,
    \* cmd_monitor's locals
    run_id, attempts, lookups, clock, polls, monState, observed,
    fetchFailures,    \* fetches of the run's status that failed, this invocation
    \* the job of the run being rendered, and the icon printed for it
    job, icon,
    \* the update worker: the request, the KV store's value under
    \* "latest-release", and what the handler answered
    request, kv, response,
    \* a second release invocation for the same version, run in another
    \* clone of origin: its position, the tags of its clone, its commit
    other,
    \* what cmd_status printed last
    statusOut,
    \* the release published for the tag, and what cmd_check found last
    release, verification

invVars == <<args, argv, cmd, BUMP_TYPE, NO_MONITOR, CMD_ARG, pre, invocation>>
jobVars == <<job, icon>>
workerVars == <<request, kv, response>>
argVars == <<invVars, lsRemoteFailed, jobVars, workerVars, other, other>>
verVars == <<CURRENT_VERSION, NEW_VERSION, TAG, CONFIRM>>
shellVars == <<pc, argVars, verVars, exitCode, err, steps>>
treeVars == <<wtToml, wtLock, idxToml, idxLock, otherDirty, otherStaged>>
refVars == <<branch, head, commits, originMain, localTags>>
remoteVars == <<remoteBranch, remoteTags>>
monVars == <<run_id, attempts, lookups, clock, polls, monState, observed, fetchFailures>>
checkVars == <<release, verification>>
vars == <<shellVars, treeVars, refVars, remoteVars, ciRuns, monVars, statusOut, checkVars>>

\* ------------------------------------------------------------- git history

RECURSIVE IsAncestor(_, _, _)
\* a is b or an ancestor of b in the commit graph cs (0 is "no commit").
IsAncestor(cs, a, b) ==
    IF b = 0 THEN FALSE
    ELSE IF a = b THEN TRUE
    ELSE IsAncestor(cs, a, cs[b].parent)

\* git merge-base a b: the common ancestor every common ancestor reaches; 0
\* (the empty string of the script) when there is none.
MergeBase(cs, a, b) ==
    LET common == {c \in DOMAIN cs : IsAncestor(cs, c, a) /\ IsAncestor(cs, c, b)}
    IN IF common = {} THEN 0
       ELSE CHOOSE c \in common : \A d \in common : IsAncestor(cs, d, c)

RECURSIVE NearestTagged(_, _, _)
\* The nearest commit from c backwards that carries a tag, 0 when none does.
NearestTagged(cs, tags, c) ==
    IF c = 0 THEN 0
    ELSE IF \E t \in DOMAIN tags : tags[t] = c THEN c
    ELSE NearestTagged(cs, tags, cs[c].parent)

\* git describe --tags --abbrev=0 2>/dev/null || echo "": the tags at the
\* nearest tagged commit (git picks one of them), {""} when there is none.
latest_tag(cs, tags, h) ==
    LET c == NearestTagged(cs, tags, h)
    IN IF c = 0 THEN {<<>>} ELSE {t \in DOMAIN tags : tags[t] = c}

NewCommitId(cs) == Cardinality(DOMAIN cs) + 1

\* ------------------------------------------------- releases and artifacts

LinuxArchive ==
    <<"s", "h", "e", "l", "l", "d", "e", "c", "k", "-", "l", "i", "n", "u",
    "x", "-", "x", "8", "6", "_", "6", "4", ".", "t", "a", "r", ".", "g",
    "z">>
MacosArchive ==
    <<"s", "h", "e", "l", "l", "d", "e", "c", "k", "-", "m", "a", "c", "o",
    "s", "-", "a", "a", "r", "c", "h", "6", "4", ".", "z", "i", "p">>
WindowsArchive ==
    <<"s", "h", "e", "l", "l", "d", "e", "c", "k", "-", "w", "i", "n", "d",
    "o", "w", "s", "-", "x", "8", "6", "_", "6", "4", ".", "z", "i", "p">>
AppImage ==
    <<"S", "h", "e", "l", "l", "D", "e", "c", "k", "-", "x", "8", "6", "_",
    "6", "4", ".", "A", "p", "p", "I", "m", "a", "g", "e">>
Checksums ==
    <<"S", "H", "A", "2", "5", "6", "S", "U", "M", "S", ".", "t", "x", "t">>

\* EXPECTED_ARTIFACTS, in the script's order.
EXPECTED_ARTIFACTS == <<LinuxArchive, MacosArchive, WindowsArchive, AppImage, Checksums>>

\* Two more files a release may carry: a signature of the checksum file
\* (SHA256SUMS.txt.asc) and release notes (notes.md).
ChecksumsSignature == Checksums \o <<".", "a", "s", "c">>
ReleaseNotes == <<"n", "o", "t", "e", "s", ".", "m", "d">>

AssetNames == {EXPECTED_ARTIFACTS[i] : i \in 1..Len(EXPECTED_ARTIFACTS)}
                 \cup {ChecksumsSignature, ReleaseNotes}

NoRelease == [exists |-> FALSE, draft |-> FALSE, assets |-> {}]

\* Every release the provider may hold for a tag.
Releases == {NoRelease} \cup
            [exists : {TRUE}, draft : BOOLEAN, assets : SUBSET AssetNames]

\* What the release workflow may have published when its run succeeds: all
\* the artifacts; the checksum file replaced by its signature; notes added.
CIPublishes ==
    LET all == {EXPECTED_ARTIFACTS[i] : i \in 1..Len(EXPECTED_ARTIFACTS)} IN
    {[exists |-> TRUE, draft |-> FALSE, assets |-> all],
     [exists |-> TRUE, draft |-> FALSE,
      assets |-> (all \ {Checksums}) \cup {ChecksumsSignature}],
     [exists |-> TRUE, draft |-> TRUE, assets |-> (all \ {AppImage}) \cup {ReleaseNotes}]}

NotVerified == [ran |-> FALSE, found |-> 0, missing |-> 0, reported |-> {},
                extra |-> {}, linux |-> "", macos |-> "", all_ok |-> FALSE]

\* ------------------------------------------------------------ initial state

V012 == <<"0", ".", "1", ".", "2">>
OldTag == <<"v", "0", ".", "1", ".", "0">>
PatchTag == TagOf(V012)
\* v0.1.20, a later release whose tag begins with v0.1.2
LongerTag == PatchTag \o <<"0">>

Lock0 == [pkg |-> V011, edited |-> FALSE]

\* Commit 1 is the root, 2 and 3 are its children; every one holds manifest m.
InitialCommits(m) ==
    [c \in {1, 2, 3} |-> [parent |-> IF c = 1 THEN 0 ELSE 1, toml |-> m, lock |-> Lock0]]

\* HEAD and the remote's main: equal, local behind, local ahead, diverged, and
\* a remote without main.
HeadAndRemote == {<<2, 2>>, <<1, 2>>, <<2, 1>>, <<2, 3>>, <<2, 0>>}

TagSets == {<<>>, (OldTag :> 1), (OldTag :> 1) @@ (PatchTag :> 1)}

Commands == {"release", "status", "monitor", "check"}

\* The command line that leaves the parser with these values.
CommandLine(command, bump, noMonitor, arg) ==
    CASE command = "release" ->
           (IF noMonitor THEN <<"--no-monitor">> ELSE <<>>) \o <<bump>>
      [] command = "status" -> <<"--status">>
      [] OTHER ->
           <<"--" \o command>> \o (IF arg = <<>> THEN <<>> ELSE <<"v0.1.2">>)

\* The variables every invocation starts with.
FreshProcess ==
    /\ pc = "dispatch"
    /\ CURRENT_VERSION = <<>> /\ NEW_VERSION = <<>> /\ TAG = <<>> /\ CONFIRM = ""
    /\ invocation = 1 /\ lsRemoteFailed = FALSE
    /\ job = NoJob /\ icon = ""
    /\ request = NoRequest /\ kv = NoValue /\ response = NoResponse
    /\ other = NoOther
    /\ exitCode = -1 /\ err = "" /\ steps = <<>>
    /\ ciRuns = <<>>
    /\ run_id = 0 /\ attempts = 0 /\ lookups = 0 /\ clock = 0 /\ polls = 0
    /\ monState = "NONE" /\ observed = [status |-> "", conclusion |-> ""]
    /\ fetchFailures = 0
    /\ statusOut = [shown |-> FALSE, ver |-> <<>>, tag |-> <<>>]
    /\ verification = NotVerified

\* The repository as a release expects it, holding manifest m: clean, on
\* main, level with origin, the earlier release tagged on both sides.
DefaultRepo(m) ==
    /\ commits = InitialCommits(m)
    /\ idxToml = m /\ wtToml = m /\ idxLock = Lock0 /\ wtLock = Lock0
    /\ otherDirty = FALSE /\ otherStaged = FALSE
    /\ branch = "main" /\ head = 2 /\ originMain = 2
    /\ remoteBranch = [b \in {"main", "dev"} |-> IF b = "main" THEN 2 ELSE 0]
    /\ localTags = (OldTag :> 1)

\* The expected state but for an edit of the manifest m that the operator has
\* not staged (the dirty check leaves Cargo.toml and Cargo.lock out).
EditedManifestRepo(m) ==
    /\ commits = InitialCommits(m)
    /\ idxToml = m /\ wtToml = Append(m, EditLine) /\ idxLock = Lock0 /\ wtLock = Lock0
    /\ otherDirty = FALSE /\ otherStaged = FALSE
    /\ branch = "main" /\ head = 2 /\ originMain = 2
    /\ remoteBranch = [b \in {"main", "dev"} |-> IF b = "main" THEN 2 ELSE 0]
    /\ localTags = (OldTag :> 1)

\* Any state of the repository the safety checks distinguish, holding
\* manifest m: edits of the manifest and the lockfile, staged or not, changes
\* elsewhere, the branch, HEAD against the remote, the tags on both sides.
AnyRepo(m) ==
    /\ commits = InitialCommits(m)
    /\ idxToml \in {m, Append(m, EditLine)}
    /\ wtToml \in {idxToml, Append(m, EditLine)}
    /\ idxLock = Lock0
    /\ wtLock \in {Lock0, [Lock0 EXCEPT !.edited = TRUE]}
    /\ otherDirty \in BOOLEAN /\ otherStaged \in BOOLEAN
    /\ branch \in {"main", "dev"}
    /\ \E hr \in HeadAndRemote :
         /\ head = hr[1]
         /\ remoteBranch = [b \in {"main", "dev"} |-> IF b = "main" THEN hr[2] ELSE 0]
         /\ originMain \in {hr[2]} \cup (IF hr[2] = 2 THEN {1} ELSE {})
    /\ localTags \in TagSets
    /\ remoteTags \in TagSets \ {<<>>}

\* Families of start states, so that the dimensions each flow reads are
\* crossed with each other and not with everything else: a release from any
\* state of the repository; a release of any manifest, bump and monitor flag
\* from the expected state; a release of any manifest with an unstaged edit
\* in it; the other commands, with any published release.
Init ==
    /\ FreshProcess
    /\ \/ /\ cmd = "release" /\ BUMP_TYPE = "patch" /\ NO_MONITOR = TRUE
          /\ CMD_ARG = <<>>
          /\ AnyRepo(StdManifest(V011))
          /\ release = NoRelease
       \/ /\ cmd = "release" /\ BUMP_TYPE \in BumpType /\ NO_MONITOR \in BOOLEAN
          /\ CMD_ARG = <<>>
          /\ \E m \in Manifests : DefaultRepo(m)
          /\ remoteTags = (OldTag :> 1)
          /\ release = NoRelease
       \/ /\ cmd = "release" /\ BUMP_TYPE = "patch" /\ NO_MONITOR = TRUE
          /\ CMD_ARG = <<>>
          /\ \E m \in Manifests : EditedManifestRepo(m)
          /\ remoteTags = (OldTag :> 1)
          /\ release = NoRelease
       \/ /\ cmd \in Commands \ {"release"} /\ BUMP_TYPE = "patch" /\ NO_MONITOR = FALSE
          /\ CMD_ARG \in {<<>>, PatchTag}
          /\ DefaultRepo(StdManifest(V011))
          /\ remoteTags \in
                {(OldTag :> 1) @@ (PatchTag :> 1)} \cup
                (IF cmd = "monitor"
                 THEN {(OldTag :> 1) @@ (PatchTag :> 1) @@ (LongerTag :> 1)}
                 ELSE {})
          /\ release \in (IF cmd = "check" THEN Releases ELSE {NoRelease})
    /\ args = CommandLine(cmd, BUMP_TYPE, NO_MONITOR, CMD_ARG) /\ argv = <<>>
    /\ pre = [toml |-> wtToml, lock |-> wtLock, dirty |-> otherDirty,
              staged |-> (otherStaged \/ idxToml # commits[head].toml),
              head |-> head, commits |-> commits, localTags |-> localTags,
              originMain |-> originMain,
              remoteBranch |-> remoteBranch, remoteTags |-> remoteTags]

\* ------------------------------------------------------------ script exits

Exit(code, e) == pc' = "exited" /\ exitCode' = code /\ err' = e
Goto(l) == pc' = l /\ UNCHANGED <<exitCode, err>>

\* die(): print the message and exit 1.
die(e) == Exit(1, e)
\* A command that fails under set -e ends the script with that command's exit
\* status and no message of the script's own; e names the command for the
\* model.
SetE(code, e) == Exit(code, e)

\* The exit statuses of a failing git command: 1 for a refusal (nothing to
\* commit, a rejected push), 128 for a fatal error (a remote that cannot be
\* reached, a tag that exists, a pathspec that matches nothing).
GitFailure == {1, 128}
\* The exit status of a failing cargo check.
CargoFailure == 101

\* ------------------------------------------------- argument parse, dispatch

\* The text a word of the command line puts into CMD_ARG.
TextOf(word) ==
    IF word = "" THEN <<>> ELSE IF word = "v0.1.2" THEN PatchTag ELSE <<word>>

\* One turn of the while loop over "$@": the case on "$1".
ParseArg ==
    /\ pc = "parse" /\ argv # <<>>
    /\ LET word == Head(argv)
           rest == Tail(argv)
       IN CASE word = "--status" ->
                 /\ cmd' = "status" /\ argv' = rest
                 /\ UNCHANGED <<pc, exitCode, err, CMD_ARG, NO_MONITOR, BUMP_TYPE>>
            [] word \in {"--monitor", "--check"} ->
                 /\ cmd' = (IF word = "--monitor" THEN "monitor" ELSE "check")
                 /\ CMD_ARG' = IF rest = <<>> THEN <<>> ELSE TextOf(Head(rest))
                 /\ argv' = IF rest # <<>> /\ Head(rest) # "" THEN Tail(rest) ELSE rest
                 /\ UNCHANGED <<pc, exitCode, err, NO_MONITOR, BUMP_TYPE>>
            [] word = "--no-monitor" ->
                 /\ NO_MONITOR' = TRUE /\ argv' = rest
                 /\ UNCHANGED <<pc, exitCode, err, cmd, CMD_ARG, BUMP_TYPE>>
            [] word = "--help" ->
                 /\ Exit(0, "")
                 /\ UNCHANGED <<argv, cmd, CMD_ARG, NO_MONITOR, BUMP_TYPE>>
            [] word \in BumpType ->
                 /\ cmd' = "release" /\ BUMP_TYPE' = word /\ argv' = rest
                 /\ UNCHANGED <<pc, exitCode, err, CMD_ARG, NO_MONITOR>>
            [] OTHER ->
                 /\ die("UnknownArgument")
                 /\ UNCHANGED <<argv, cmd, CMD_ARG, NO_MONITOR, BUMP_TYPE>>
    /\ UNCHANGED <<args, pre, invocation, lsRemoteFailed, jobVars, workerVars, other, verVars, steps, treeVars,
                   refVars, remoteVars, ciRuns, monVars, statusOut, checkVars>>

\* After the loop: the default command and the default bump.
ParseDone ==
    /\ pc = "parse" /\ argv = <<>>
    /\ cmd' = (IF cmd = "" THEN "release" ELSE cmd)
    /\ BUMP_TYPE' = (IF cmd' = "release" /\ BUMP_TYPE = "" THEN "patch" ELSE BUMP_TYPE)
    /\ Goto("dispatch")
    /\ UNCHANGED <<args, argv, NO_MONITOR, CMD_ARG, pre, invocation, lsRemoteFailed, jobVars, workerVars, other,
                   verVars, steps, treeVars, refVars, remoteVars, ciRuns, monVars,
                   statusOut, checkVars>>

\* case "$COMMAND": status, monitor and check run their function and exit;
\* release continues below.
Dispatch ==
    /\ pc = "dispatch"
    /\ Goto(CASE cmd = "release" -> "read_version"
              [] cmd = "status" -> "status"
              [] cmd = "monitor" -> "monitor"
              [] cmd = "check" -> "check")
    /\ UNCHANGED <<argVars, verVars, steps, treeVars, refVars, remoteVars, ciRuns,
                   monVars, statusOut, checkVars>>

\* ------------------------------------------------- release: version bump

\* CURRENT_VERSION=$(current_version); die when it is empty.
ReadVersion ==
    /\ pc = "read_version"
    /\ LET r == current_version(wtToml) IN
       IF ~r.ok THEN SetE(1, "current_version failed") /\ UNCHANGED CURRENT_VERSION
       ELSE IF r.out = <<>> THEN die("CouldNotReadVersion") /\ UNCHANGED CURRENT_VERSION
       ELSE Goto("bump") /\ CURRENT_VERSION' = r.out
    /\ UNCHANGED <<argVars, NEW_VERSION, TAG, CONFIRM, steps, treeVars, refVars, remoteVars,
                   ciRuns, monVars, statusOut, checkVars>>

\* IFS read, the bump, NEW_VERSION and TAG.
ComputeVersion ==
    /\ pc = "bump"
    /\ LET nv == NewVersion(CURRENT_VERSION, BUMP_TYPE) IN
       IF ~nv.ok THEN SetE(1, "unbound variable") /\ UNCHANGED <<NEW_VERSION, TAG>>
       ELSE Goto("check_dirty") /\ NEW_VERSION' = nv.ver /\ TAG' = TagOf(nv.ver)
    /\ UNCHANGED <<argVars, CURRENT_VERSION, CONFIRM, steps, treeVars, refVars,
                   remoteVars, ciRuns, monVars, statusOut, checkVars>>

\* What an operator types at a prompt: y, n, just Enter, or end of input (read
\* then fails, and set -e ends the script).
Answers == {"y", "n", "", "eof"}

\* What read leaves in the variable: the line typed, nothing at end of input.
Typed(answer) == IF answer = "eof" THEN "" ELSE answer

\* ------------------------------------------------- release: safety checks

\* ! git diff --quiet -- ':!Cargo.toml' ':!Cargo.lock'
HasUncommittedChanges == otherDirty

\* The staged check given the pathspec of the unstaged one.
StagedOutsideManifest == otherStaged

\* ! git diff --cached --quiet
HasStagedChanges ==
    otherStaged \/ idxToml # commits[head].toml \/ idxLock # commits[head].lock

\* git tag -l "$TAG" | grep -q "$TAG"
LocalTagExists == TAG \in DOMAIN localTags

\* git ls-remote --tags origin "refs/tags/$TAG" 2>/dev/null | grep -q "$TAG":
\* when ls-remote fails it prints nothing, and the condition is false.
RemoteTagListed(lsRemoteOk) == lsRemoteOk /\ TAG \in DOMAIN remoteTags

\* The test with the merge base compared to the remote's head.
NotUpToDateBaseIsRemote(cs, local, remote) ==
    /\ remote # 0
    /\ local # remote
    /\ MergeBase(cs, local, remote) # remote

\* [[ -n "$REMOTE" && "$LOCAL" != "$REMOTE" ]] and then [[ "$BASE" != "$LOCAL" ]]
NotUpToDate(cs, local, remote) ==
    /\ remote # 0
    /\ local # remote
    /\ MergeBase(cs, local, remote) # local

Preflight(next) ==
    /\ UNCHANGED <<argVars, verVars, steps, treeVars, remoteVars, ciRuns, monVars,
                   statusOut, checkVars>>
    /\ next

CheckDirty ==
    /\ pc = "check_dirty"
    /\ Preflight(IF HasUncommittedChanges THEN die("DirtyWorkingTree")
                 ELSE Goto("check_staged"))
    /\ UNCHANGED refVars

CheckStaged ==
    /\ pc = "check_staged"
    /\ Preflight(IF HasStagedChanges THEN die("StagedChanges")
                 ELSE Goto("check_local_tag"))
    /\ UNCHANGED refVars

\* The local tag check as a warning: it reports and goes on.
CheckLocalTagWarnOnly ==
    /\ pc = "check_local_tag"
    /\ Preflight(Goto("fetch_tags"))
    /\ UNCHANGED refVars

CheckLocalTag ==
    /\ pc = "check_local_tag"
    /\ Preflight(IF LocalTagExists THEN die("LocalTagExists") ELSE Goto("fetch_tags"))
    /\ UNCHANGED refVars

\* The remote's tags a fetch adds to the local ones (a tag the repository
\* already has is kept as it is).
FetchedTags == [t \in DOMAIN localTags \cup DOMAIN remoteTags |->
                   IF t \in DOMAIN localTags THEN localTags[t] ELSE remoteTags[t]]

\* The remote-tracking ref of main after a fetch.
FetchedMain == IF remoteBranch["main"] # 0 THEN remoteBranch["main"] ELSE originMain

\* git fetch --tags --quiet 2>/dev/null || true
FetchTags ==
    /\ pc = "fetch_tags"
    /\ Preflight(Goto("check_remote_tag"))
    /\ \E ok \in BOOLEAN :
         IF ok THEN localTags' = FetchedTags /\ originMain' = FetchedMain
         ELSE UNCHANGED <<localTags, originMain>>
    /\ UNCHANGED <<branch, head, commits>>

\* The remote tag check behind a lock: it also stops the release while
\* another invocation is between its own checks and its tag push.
CheckRemoteTagExclusive ==
    /\ pc = "check_remote_tag"
    /\ \E lsRemoteOk \in BOOLEAN :
         /\ lsRemoteFailed' = ~lsRemoteOk
         /\ IF RemoteTagListed(lsRemoteOk) \/ other.pc \notin {"none", "failed", "done"}
            THEN die("RemoteTagExists")
            ELSE Goto("branch_check")
    /\ UNCHANGED <<invVars, jobVars, workerVars, other, verVars, steps, treeVars, refVars, remoteVars,
                   ciRuns, monVars, statusOut, checkVars>>

CheckRemoteTag ==
    /\ pc = "check_remote_tag"
    /\ \E lsRemoteOk \in BOOLEAN :
         /\ lsRemoteFailed' = ~lsRemoteOk
         /\ IF RemoteTagListed(lsRemoteOk) THEN die("RemoteTagExists")
            ELSE Goto("branch_check")
    /\ UNCHANGED <<invVars, jobVars, workerVars, other, verVars, steps, treeVars, refVars, remoteVars,
                   ciRuns, monVars, statusOut, checkVars>>

\* The branch prompt read as [Y/n]: only n stops the release.
BranchCheckDefaultYes ==
    /\ pc = "branch_check"
    /\ IF branch = "main" THEN Goto("fetch") /\ UNCHANGED CONFIRM
       ELSE \E answer \in Answers :
              /\ CONFIRM' = Typed(answer)
              /\ CASE answer = "n" -> Exit(1, "BranchDeclined")
                   [] answer = "eof" -> SetE(1, "read failed in preflight")
                   [] OTHER -> Goto("fetch")
    /\ UNCHANGED <<argVars, CURRENT_VERSION, NEW_VERSION, TAG, steps, treeVars, refVars,
                   remoteVars, ciRuns, monVars, statusOut, checkVars>>

\* [[ "$BRANCH" != "main" ]]: ask, and go on only for y or Y.
BranchCheck ==
    /\ pc = "branch_check"
    /\ IF branch = "main" THEN Goto("fetch") /\ UNCHANGED CONFIRM
       ELSE \E answer \in Answers :
              /\ CONFIRM' = Typed(answer)
              /\ CASE answer = "y" -> Goto("fetch")
                   [] answer = "eof" -> SetE(1, "read failed in preflight")
                   [] OTHER -> Exit(1, "BranchDeclined")
    /\ UNCHANGED <<argVars, CURRENT_VERSION, NEW_VERSION, TAG, steps, treeVars, refVars,
                   remoteVars, ciRuns, monVars, statusOut, checkVars>>

\* git pull --ff-only in the place of the fetch: the local branch moves too.
FetchOriginPulling ==
    /\ pc = "fetch"
    /\ \E ok \in BOOLEAN :
         IF ok THEN /\ Preflight(Goto("up_to_date")) /\ originMain' = FetchedMain
                    /\ head' = IF IsAncestor(commits, head, FetchedMain) THEN FetchedMain
                               ELSE head
         ELSE /\ \E code \in GitFailure : Preflight(SetE(code, "fetch failed"))
              /\ UNCHANGED <<originMain, head>>
    /\ UNCHANGED <<branch, commits, localTags>>

\* git fetch --quiet (under set -e)
FetchOrigin ==
    /\ pc = "fetch"
    /\ \E ok \in BOOLEAN :
         IF ok THEN Preflight(Goto("up_to_date")) /\ originMain' = FetchedMain
         ELSE (\E code \in GitFailure : Preflight(SetE(code, "fetch failed"))) /\ UNCHANGED originMain
    /\ UNCHANGED <<branch, head, commits, localTags>>

\* The up-to-date check placed after the version write.
UpToDateAfterWrite ==
    /\ pc = "up_to_date"
    /\ wtToml' = sed_write(wtToml, CURRENT_VERSION, NEW_VERSION)
    /\ IF NotUpToDate(commits, head, originMain) THEN die("RemoteDiverged")
       ELSE Goto("write_version")
    /\ UNCHANGED <<argVars, verVars, steps, wtLock, idxToml, idxLock, otherDirty,
                   otherStaged, refVars, remoteVars, ciRuns, monVars, statusOut, checkVars>>

UpToDate ==
    /\ pc = "up_to_date"
    /\ Preflight(IF NotUpToDate(commits, head, originMain) THEN die("RemoteDiverged")
                 ELSE Goto("write_version"))
    /\ UNCHANGED refVars

\* ------------------------------------- release: version write, build check

WriteVersion ==
    /\ pc = "write_version"
    /\ wtToml' = sed_write(wtToml, CURRENT_VERSION, NEW_VERSION)
    /\ steps' = Append(steps, "write")
    /\ Goto("cargo_check")
    /\ UNCHANGED <<argVars, verVars, wtLock, idxToml, idxLock, otherDirty, otherStaged,
                   refVars, remoteVars, ciRuns, monVars, statusOut, checkVars>>

\* cargo check --quiet (under set -e): it brings Cargo.lock's entry of the
\* package to the manifest's version; a failing check may or may not have
\* written the lockfile.
CargoCheck ==
    /\ pc = "cargo_check"
    /\ \E ok \in BOOLEAN, wrote \in BOOLEAN :
         /\ ok => wrote
         /\ IF ok THEN Goto("commit_message") ELSE SetE(CargoFailure, "cargo check failed")
         /\ wtLock' = IF wrote THEN [wtLock EXCEPT !.pkg = CargoPackageVersion(wtToml)]
                      ELSE wtLock
    /\ UNCHANGED <<argVars, verVars, steps, wtToml, idxToml, idxLock, otherDirty,
                   otherStaged, refVars, remoteVars, ciRuns, monVars, statusOut, checkVars>>

\* read -rp "Commit message": the text does not matter here, a failed read does.
CommitMessage ==
    /\ pc = "commit_message"
    /\ \E readOk \in BOOLEAN : IF readOk THEN Goto("final_confirm") ELSE SetE(1, "read failed")
    /\ UNCHANGED <<argVars, verVars, steps, treeVars, refVars, remoteVars, ciRuns,
                   monVars, statusOut, checkVars>>

\* read -rp "Push release? [Y/n]"; on n or N:
\* git checkout -- "$CARGO_TOML" Cargo.lock; exit 1
FinalConfirm ==
    /\ pc = "final_confirm"
    /\ \E answer \in Answers :
         /\ CONFIRM' = Typed(answer)
         /\ CASE answer = "n" ->
                  /\ wtToml' = idxToml /\ wtLock' = idxLock
                  /\ steps' = Append(steps, "revert")
                  /\ Exit(1, "Aborted")
              [] answer = "eof" -> SetE(1, "read failed") /\ UNCHANGED <<wtToml, wtLock, steps>>
              [] OTHER -> Goto("git_add") /\ UNCHANGED <<wtToml, wtLock, steps>>
    /\ UNCHANGED <<argVars, CURRENT_VERSION, NEW_VERSION, TAG, idxToml, idxLock, otherDirty, otherStaged, refVars,
                   remoteVars, ciRuns, monVars, statusOut, checkVars>>

\* ------------------------------------------ release: commit, tag, push

Transaction(step, next) ==
    /\ steps' = Append(steps, step)
    /\ next
    /\ UNCHANGED <<argVars, verVars, wtToml, wtLock, otherDirty, otherStaged, ciRuns,
                   monVars, statusOut, checkVars>>

FailedStep(codes, e) ==
    /\ \E code \in codes : SetE(code, e)
    /\ UNCHANGED <<argVars, verVars, steps, treeVars, refVars, remoteVars, ciRuns,
                   monVars, statusOut, checkVars>>

\* git add Cargo.toml Cargo.lock
GitAdd ==
    /\ pc = "git_add"
    /\ \/ /\ Transaction("add", Goto("git_commit"))
          /\ idxToml' = wtToml /\ idxLock' = wtLock
          /\ UNCHANGED <<refVars, remoteVars>>
       \/ FailedStep({128}, "git add failed")

\* git commit refuses when the index equals HEAD's tree.
NothingToCommit ==
    idxToml = commits[head].toml /\ idxLock = commits[head].lock /\ ~otherStaged

\* git commit -m "$COMMIT_MSG"
GitCommit ==
    /\ pc = "git_commit"
    /\ \/ /\ ~NothingToCommit
          /\ Transaction("commit", Goto("git_tag"))
          /\ commits' = commits @@ (NewCommitId(commits) :>
                 [parent |-> head, toml |-> idxToml, lock |-> idxLock])
          /\ head' = NewCommitId(commits)
          /\ UNCHANGED <<idxToml, idxLock, branch, originMain, localTags, remoteVars>>
       \/ FailedStep(GitFailure, "git commit failed")

\* The tag created at the commit before the release commit.
GitTagAtParent ==
    /\ pc = "git_tag"
    /\ \/ /\ TAG \notin DOMAIN localTags
          /\ Transaction("tag", Goto("git_push"))
          /\ localTags' = localTags @@ (TAG :> commits[head].parent)
          /\ UNCHANGED <<idxToml, idxLock, branch, head, commits, originMain, remoteVars>>
       \/ FailedStep({128}, "git tag failed")

\* git tag with a rollback: when it fails, the release commit is taken back
\* (git reset --soft HEAD~1) before the script exits.
GitTagUndoingCommit ==
    /\ pc = "git_tag"
    /\ \/ /\ TAG \notin DOMAIN localTags
          /\ Transaction("tag", Goto("git_push"))
          /\ localTags' = localTags @@ (TAG :> head)
          /\ UNCHANGED <<idxToml, idxLock, branch, head, commits, originMain, remoteVars>>
       \/ /\ SetE(128, "git tag failed")
          /\ head' = commits[head].parent
          /\ UNCHANGED <<argVars, verVars, steps, treeVars, branch, commits, originMain,
                         localTags, remoteVars, ciRuns, monVars, statusOut, checkVars>>

\* git tag "$TAG": refused when the tag exists.
GitTag ==
    /\ pc = "git_tag"
    /\ \/ /\ TAG \notin DOMAIN localTags
          /\ Transaction("tag", Goto("git_push"))
          /\ localTags' = localTags @@ (TAG :> head)
          /\ UNCHANGED <<idxToml, idxLock, branch, head, commits, originMain, remoteVars>>
       \/ FailedStep({128}, "git tag failed")

\* The remote accepts a push of the branch only as a fast-forward.
PushAccepted == \/ remoteBranch[branch] = 0
                \/ IsAncestor(commits, remoteBranch[branch], head)

\* git push with its failure ignored (no set -e).
GitPushFailureIgnored ==
    /\ pc = "git_push"
    /\ \/ /\ PushAccepted
          /\ Transaction("push", Goto("git_push_tag"))
          /\ remoteBranch' = [remoteBranch EXCEPT ![branch] = head]
          /\ originMain' = IF branch = "main" THEN head ELSE originMain
          /\ UNCHANGED <<idxToml, idxLock, branch, head, commits, localTags, remoteTags>>
       \/ /\ Goto("git_push_tag")
          /\ UNCHANGED <<argVars, verVars, steps, treeVars, refVars, remoteVars, ciRuns,
                         monVars, statusOut, checkVars>>

\* git push
GitPush ==
    /\ pc = "git_push"
    /\ \/ /\ PushAccepted
          /\ Transaction("push", Goto("git_push_tag"))
          /\ remoteBranch' = [remoteBranch EXCEPT ![branch] = head]
          /\ originMain' = IF branch = "main" THEN head ELSE originMain
          /\ UNCHANGED <<idxToml, idxLock, branch, head, commits, localTags, remoteTags>>
       \/ FailedStep(GitFailure, "git push failed")

\* git push origin "$TAG" || true: a failed tag push does not end the script.
GitPushTagFailureIgnored ==
    /\ pc = "git_push_tag"
    /\ \/ /\ TAG \notin DOMAIN remoteTags
          /\ Transaction("push_tag", Goto("auto_monitor"))
          /\ remoteTags' = remoteTags @@ (TAG :> localTags[TAG])
          /\ UNCHANGED <<idxToml, idxLock, refVars, remoteBranch>>
       \/ /\ Goto("auto_monitor")
          /\ UNCHANGED <<argVars, verVars, steps, treeVars, refVars, remoteVars, ciRuns,
                         monVars, statusOut, checkVars>>

\* git push origin "$TAG": the remote refuses a tag it already has.
GitPushTag ==
    /\ pc = "git_push_tag"
    /\ \/ /\ TAG \notin DOMAIN remoteTags
          /\ Transaction("push_tag", Goto("auto_monitor"))
          /\ remoteTags' = remoteTags @@ (TAG :> localTags[TAG])
          /\ UNCHANGED <<idxToml, idxLock, refVars, remoteBranch>>
       \/ FailedStep(GitFailure, "git push tag failed")

\* The auto-monitor block with the test of NO_MONITOR left out.
AutoMonitorIgnoringFlag ==
    /\ pc = "auto_monitor"
    /\ \E ghUsable \in BOOLEAN :
         IF ghUsable
         THEN \E MONITOR_CONFIRM \in Answers :
                CASE MONITOR_CONFIRM = "n" -> Exit(0, "")
                  [] MONITOR_CONFIRM = "eof" -> SetE(1, "read failed after push")
                  [] OTHER -> Goto("monitor")
         ELSE Exit(0, "")
    /\ CMD_ARG' = IF pc' = "monitor" THEN TAG ELSE CMD_ARG
    /\ UNCHANGED <<args, argv, cmd, invocation, lsRemoteFailed, jobVars, workerVars, other, BUMP_TYPE, NO_MONITOR, pre, verVars, steps, treeVars, refVars,
                   remoteVars, ciRuns, monVars, statusOut, checkVars>>

\* The auto-monitor block: without --no-monitor and with gh usable, ask, and
\* call cmd_monitor "$TAG" unless the answer is n or N.
AutoMonitor ==
    /\ pc = "auto_monitor"
    /\ \E ghUsable \in BOOLEAN :
         IF ~NO_MONITOR /\ ghUsable
         THEN \E MONITOR_CONFIRM \in Answers :
                CASE MONITOR_CONFIRM = "n" -> Exit(0, "")
                  [] MONITOR_CONFIRM = "eof" -> SetE(1, "read failed after push")
                  [] OTHER -> Goto("monitor")
         ELSE Exit(0, "")
    /\ CMD_ARG' = IF pc' = "monitor" THEN TAG ELSE CMD_ARG
    /\ UNCHANGED <<args, argv, cmd, invocation, lsRemoteFailed, jobVars, workerVars, other, BUMP_TYPE, NO_MONITOR, pre, verVars, steps, treeVars, refVars,
                   remoteVars, ciRuns, monVars, statusOut, checkVars>>

\* fmt_duration: seconds below a minute, minutes and seconds below an hour,
\* hours and minutes from there on; as <<hours, minutes, seconds>>.
fmt_duration(secs) ==
    IF secs < 60 THEN <<0, 0, secs>>
    ELSE IF secs < 3600 THEN <<0, secs \div 60, secs % 60>>
    ELSE <<secs \div 3600, (secs % 3600) \div 60, 0>>

\* local start_time=$SECONDS: the clock when the discovery loop has ended,
\* which is the time its sleeps took.
start_time == DiscoverSleep * attempts

\* elapsed and total_elapsed: fmt_duration $((SECONDS - start_time))
elapsed == fmt_duration(clock - start_time)

\* ----------------------------------------------------------- CI provider

Conclusions == {"success", "failure", "cancelled", "null"}

\* text contains part (jq's contains on strings, grep -F on a line).
Contains(text, part) ==
    \E i \in 0..(Len(text) - Len(part)) : SubSeq(text, i + 1, i + Len(part)) = part

RunOf(id) == ciRuns[CHOOSE i \in 1..Len(ciRuns) : ciRuns[i].id = id]

\* The script reads the CI provider's runs only in cmd_monitor's two loops,
\* so the provider's steps are interleaved only there.
CIObservable == pc \in {"discover", "poll"}

\* The run's displayTitle is the first line of the tagged commit's message,
\* which the release flow makes begin with the tag (DEFAULT_MSG="$TAG: ").
DisplayTitle(t) == t \o <<":", " ">>

\* CI observes a pushed tag and creates a run, newest first in the list.
CIStart ==
    /\ CIObservable
    /\ \E t \in DOMAIN remoteTags \ {OldTag} :
         /\ \A i \in 1..Len(ciRuns) : ciRuns[i].tag # t
         /\ ciRuns' = <<[id |-> Len(ciRuns) + 1, tag |-> t, title |-> DisplayTitle(t),
                         status |-> "queued", conclusion |-> "null"]>> \o ciRuns
    /\ UNCHANGED <<shellVars, treeVars, refVars, remoteVars, monVars, statusOut, checkVars>>

\* A run goes queued -> in_progress -> completed, with a conclusion of cs; a
\* run that succeeds has published the release of its tag.
CIAdvanceTo(cs) ==
    /\ CIObservable
    /\ \E i \in 1..Len(ciRuns) :
         \/ /\ ciRuns[i].status = "queued"
            /\ ciRuns' = [ciRuns EXCEPT ![i].status = "in_progress"]
            /\ UNCHANGED release
         \/ /\ ciRuns[i].status = "in_progress"
            /\ \E c \in cs :
                 /\ ciRuns' = [ciRuns EXCEPT ![i].status = "completed", ![i].conclusion = c]
                 /\ IF c = "success" /\ ciRuns[i].tag = TAG /\ ~release.exists
                    THEN release' \in CIPublishes
                    ELSE UNCHANGED release
    /\ UNCHANGED <<shellVars, treeVars, refVars, remoteVars, monVars, statusOut,
                   verification>>

CIAdvance == CIAdvanceTo(Conclusions)

\* ------------------------------------------------------------ cmd_monitor

\* gh run list --limit=5 ... -q '.[] | select(.displayTitle | contains("$tag"))
\* | .databaseId' 2>/dev/null | head -1 || echo "": the id of the first listed
\* run whose title contains the tag, 0 (the empty string) when there is none
\* or the call fails.
RunLookup(runs, tag, apiOk) ==
    LET listed == SubSeq(runs, 1, IF Len(runs) < 5 THEN Len(runs) ELSE 5)
        hits == {i \in 1..Len(listed) : Contains(listed[i].title, tag)}
    IN IF ~apiOk \/ hits = {} THEN 0
       ELSE listed[CHOOSE i \in hits : \A j \in hits : i <= j].id

\* require_gh, the tag argument (default: latest_tag), the loop's locals.
MonitorStart ==
    /\ pc = "monitor"
    /\ \E ghOk \in BOOLEAN, latest \in latest_tag(commits, localTags, head) :
         LET tag == IF CMD_ARG # <<>> THEN CMD_ARG ELSE latest IN
         IF ~ghOk THEN die("GhRequired") /\ UNCHANGED <<TAG, monState>>
         ELSE IF tag = <<>> THEN die("NoTag") /\ UNCHANGED <<TAG, monState>>
         ELSE Goto("discover") /\ TAG' = tag /\ monState' = "DISCOVERING"
    /\ UNCHANGED <<argVars, CURRENT_VERSION, NEW_VERSION, CONFIRM, steps, treeVars,
                   refVars, remoteVars, ciRuns, run_id, attempts, lookups, clock, polls,
                   observed, fetchFailures, statusOut, checkVars>>

\* The discovery loop with > for >= in the test of the attempt count.
DiscoverOffByOne ==
    /\ pc = "discover"
    /\ lookups' = lookups + 1
    /\ \E apiOk \in BOOLEAN :
         LET found == RunLookup(ciRuns, TAG, apiOk) IN
         IF found # 0
         THEN /\ run_id' = found
              /\ Goto("poll") /\ monState' = "POLLING"
              /\ UNCHANGED <<attempts, clock>>
         ELSE /\ attempts' = attempts + 1
              /\ UNCHANGED run_id
              /\ IF attempts + 1 > max_attempts
                 THEN die("RunNotFound") /\ UNCHANGED <<clock, monState>>
                 ELSE Goto("discover") /\ clock' = clock + DiscoverSleep
                      /\ UNCHANGED monState
    /\ UNCHANGED <<argVars, verVars, steps, treeVars, refVars, remoteVars, ciRuns,
                   polls, observed, fetchFailures, statusOut, checkVars>>

\* One iteration of the discovery loop: a lookup; without a run, count the
\* attempt, die at max_attempts, else sleep 10.
Discover ==
    /\ pc = "discover"
    /\ lookups' = lookups + 1
    /\ \E apiOk \in BOOLEAN :
         LET found == RunLookup(ciRuns, TAG, apiOk) IN
         IF found # 0
         THEN /\ run_id' = found
              /\ Goto("poll") /\ monState' = "POLLING"
              /\ UNCHANGED <<attempts, clock>>
         ELSE /\ attempts' = attempts + 1
              /\ UNCHANGED run_id
              /\ IF attempts + 1 >= max_attempts
                 THEN die("RunNotFound") /\ UNCHANGED <<clock, monState>>
                 ELSE Goto("discover") /\ clock' = clock + DiscoverSleep
                      /\ UNCHANGED monState
    /\ UNCHANGED <<argVars, verVars, steps, treeVars, refVars, remoteVars, ciRuns,
                   polls, observed, fetchFailures, statusOut, checkVars>>

\* The model follows the loop for MaxPolls polls of a run that has not
\* completed; the poll that sees it completed is always followed.
PollFollowed == polls < MaxPolls \/ RunOf(run_id).status = "completed"

\* The monitor loop with every completed run taken for a success.
PollIgnoringConclusion ==
    /\ pc = "poll"
    /\ PollFollowed
    /\ \E fetchOk \in BOOLEAN :
         IF ~fetchOk
         THEN /\ SetE(1, "gh run view failed")
              /\ fetchFailures' = fetchFailures + 1
              /\ UNCHANGED <<polls, observed, monState, clock>>
         ELSE LET run == RunOf(run_id) IN
              /\ polls' = polls + 1
              /\ observed' = [status |-> run.status, conclusion |-> run.conclusion]
              /\ UNCHANGED fetchFailures
              /\ IF run.status = "completed"
                 THEN Goto("check") /\ monState' = "COMPLETED_SUCCESS" /\ UNCHANGED clock
                 ELSE Goto("poll") /\ clock' = clock + PollSleep /\ UNCHANGED monState
    /\ UNCHANGED <<argVars, verVars, steps, treeVars, refVars, remoteVars, ciRuns,
                   run_id, attempts, lookups, statusOut, checkVars>>

\* The monitor loop with a bound on its polls: the second poll that finds the
\* run not completed gives up.
PollWithTimeout ==
    /\ pc = "poll"
    /\ PollFollowed
    /\ \E fetchOk \in BOOLEAN :
         IF ~fetchOk
         THEN /\ SetE(1, "gh run view failed")
              /\ fetchFailures' = fetchFailures + 1
              /\ UNCHANGED <<polls, observed, monState, clock>>
         ELSE LET run == RunOf(run_id) IN
              /\ polls' = polls + 1
              /\ observed' = [status |-> run.status, conclusion |-> run.conclusion]
              /\ UNCHANGED fetchFailures
              /\ IF run.status = "completed"
                 THEN /\ UNCHANGED clock
                      /\ IF run.conclusion = "success"
                         THEN Goto("check") /\ monState' = "COMPLETED_SUCCESS"
                         ELSE Exit(1, "CIFailure") /\ monState' = "COMPLETED_FAILURE"
                 ELSE IF polls >= 1
                      THEN die("MonitorTimeout") /\ UNCHANGED <<clock, monState>>
                      ELSE Goto("poll") /\ clock' = clock + PollSleep /\ UNCHANGED monState
    /\ UNCHANGED <<argVars, verVars, steps, treeVars, refVars, remoteVars, ciRuns,
                   run_id, attempts, lookups, statusOut, checkVars>>

\* The monitor loop with SECONDS set back to 0 before each sleep.
PollResettingSeconds ==
    /\ pc = "poll"
    /\ PollFollowed
    /\ \E fetchOk \in BOOLEAN :
         IF ~fetchOk
         THEN /\ SetE(1, "gh run view failed")
              /\ fetchFailures' = fetchFailures + 1
              /\ UNCHANGED <<polls, observed, monState, clock>>
         ELSE LET run == RunOf(run_id) IN
              /\ polls' = polls + 1
              /\ observed' = [status |-> run.status, conclusion |-> run.conclusion]
              /\ UNCHANGED fetchFailures
              /\ IF run.status = "completed"
                 THEN /\ UNCHANGED clock
                      /\ IF run.conclusion = "success"
                         THEN Goto("check") /\ monState' = "COMPLETED_SUCCESS"
                         ELSE Exit(1, "CIFailure") /\ monState' = "COMPLETED_FAILURE"
                 ELSE Goto("poll") /\ clock' = PollSleep /\ UNCHANGED monState
    /\ UNCHANGED <<argVars, verVars, steps, treeVars, refVars, remoteVars, ciRuns,
                   run_id, attempts, lookups, statusOut, checkVars>>

\* One iteration of the monitor loop: run_json=$(gh run view ...), whose
\* failure ends the script under set -e; then the test of status and
\* conclusion, else sleep 15.
Poll ==
    /\ pc = "poll"
    /\ PollFollowed
    /\ \E fetchOk \in BOOLEAN :
         IF ~fetchOk
         THEN /\ SetE(1, "gh run view failed")
              /\ fetchFailures' = fetchFailures + 1
              /\ UNCHANGED <<polls, observed, monState, clock>>
         ELSE LET run == RunOf(run_id) IN
              /\ polls' = polls + 1
              /\ observed' = [status |-> run.status, conclusion |-> run.conclusion]
              /\ UNCHANGED fetchFailures
              /\ IF run.status = "completed"
                 THEN /\ UNCHANGED clock
                      /\ IF run.conclusion = "success"
                         THEN Goto("check") /\ monState' = "COMPLETED_SUCCESS"
                         ELSE Exit(1, "CIFailure") /\ monState' = "COMPLETED_FAILURE"
                 ELSE Goto("poll") /\ clock' = clock + PollSleep /\ UNCHANGED monState
    /\ UNCHANGED <<argVars, verVars, steps, treeVars, refVars, remoteVars, ciRuns,
                   run_id, attempts, lookups, statusOut, checkVars>>

\* -------------------------------------------------------------- cmd_check

\* echo "$assets" | grep -qF "$expected": some line of the asset list
\* contains the expected name.
GrepFound(assets, expected) == \E a \in assets : Contains(a, expected)

\* The loop over EXPECTED_ARTIFACTS: the names it prints as missing.
ReportedMissing(assets) ==
    {EXPECTED_ARTIFACTS[i] : i \in {j \in 1..Len(EXPECTED_ARTIFACTS) :
                                       ~GrepFound(assets, EXPECTED_ARTIFACTS[j])}}

\* found and missing as the loop counts them.
FoundCount(assets) ==
    Cardinality({i \in 1..Len(EXPECTED_ARTIFACTS) : GrepFound(assets, EXPECTED_ARTIFACTS[i])})
MissingCount(assets) ==
    Cardinality({i \in 1..Len(EXPECTED_ARTIFACTS) : ~GrepFound(assets, EXPECTED_ARTIFACTS[i])})

\* The "Extra artifacts" list: the assets equal to no expected name.
ExtraArtifacts(assets) ==
    {a \in assets : \A i \in 1..Len(EXPECTED_ARTIFACTS) : a # EXPECTED_ARTIFACTS[i]}

\* What curl -sI -o /dev/null -w '%{http_code}' -L URL || echo "000" can print
\* for the download URL of an asset name: 200 only when the release has the
\* asset, 404, or 000 twice when curl itself fails.
ProbeCodes(rel, name) ==
    (IF name \in rel.assets THEN {"200"} ELSE {}) \cup {"404", "000\n000"}

\* all_ok when the result of the second probe is not taken into account.
AllOkLinuxOnly(assets, linux, macos) ==
    MissingCount(assets) = 0 /\ linux = "200"

\* all_ok at the end of cmd_check.
AllOk(assets, linux, macos) ==
    MissingCount(assets) = 0 /\ linux = "200" /\ macos = "200"

\* cmd_check: require_gh, the tag, gh release view (die when it fails), the
\* draft warning, the comparison of the assets, the two probes, and return 1
\* (which ends the script under set -e) unless all is well.
CheckRelease ==
    /\ pc = "check"
    /\ \E ghOk \in BOOLEAN, viewOk \in BOOLEAN,
          latest \in latest_tag(commits, localTags, head) :
         LET tag == IF CMD_ARG # <<>> THEN CMD_ARG ELSE latest IN
         IF ~ghOk THEN die("GhRequired") /\ UNCHANGED verification
         ELSE IF tag = <<>> THEN die("NoTag") /\ UNCHANGED verification
         ELSE IF ~viewOk \/ ~release.exists
              THEN die("NoRelease") /\ UNCHANGED verification
         ELSE \E linux \in ProbeCodes(release, LinuxArchive),
                 macos \in ProbeCodes(release, MacosArchive) :
                /\ verification' =
                     [ran |-> TRUE,
                      found |-> FoundCount(release.assets),
                      missing |-> MissingCount(release.assets),
                      reported |-> ReportedMissing(release.assets),
                      extra |-> ExtraArtifacts(release.assets),
                      linux |-> linux, macos |-> macos,
                      all_ok |-> AllOk(release.assets, linux, macos)]
                /\ IF AllOk(release.assets, linux, macos)
                   THEN Exit(0, "")
                   ELSE Exit(1, "VerificationMismatch")
    /\ UNCHANGED <<argVars, verVars, steps, treeVars, refVars, remoteVars, ciRuns,
                   monVars, statusOut, release>>

\* ------------------------------------------------------------- cmd_status

\* cmd_status with a git fetch --tags added to it.
StatusFetchingTags ==
    /\ pc = "status"
    /\ localTags' = FetchedTags
    /\ LET r == current_version(wtToml) IN
       IF ~r.ok THEN SetE(1, "current_version failed") /\ UNCHANGED statusOut
       ELSE \E t \in latest_tag(commits, localTags, head) :
              /\ statusOut' = [shown |-> TRUE, ver |-> r.out, tag |-> t]
              /\ Exit(0, "")
    /\ UNCHANGED <<argVars, verVars, steps, treeVars, branch, head, commits, originMain,
                   remoteVars, ciRuns, monVars, checkVars>>

\* ver=$(current_version); tag=$(latest_tag); print both, the branch, and
\* what gh release view and gh run list return; exit 0.
Status ==
    /\ pc = "status"
    /\ LET r == current_version(wtToml) IN
       IF ~r.ok THEN SetE(1, "current_version failed") /\ UNCHANGED statusOut
       ELSE \E t \in latest_tag(commits, localTags, head) :
              /\ statusOut' = [shown |-> TRUE, ver |-> r.out, tag |-> t]
              /\ Exit(0, "")
    /\ UNCHANGED <<argVars, verVars, steps, treeVars, refVars, remoteVars, ciRuns,
                   monVars, checkVars>>

\* After a release invocation has ended, the operator runs --status: a new
\* process, with cmd_monitor's locals and the SECONDS clock as at any start
\* (the release's own variables and steps stay as the release left them).
StatusAfterRelease ==
    /\ pc = "exited" /\ cmd = "release"
    /\ pc' = "dispatch" /\ cmd' = "status" /\ exitCode' = -1 /\ err' = ""
    /\ invocation' = invocation + 1
    /\ run_id' = 0 /\ attempts' = 0 /\ lookups' = 0 /\ clock' = 0 /\ polls' = 0
    /\ monState' = "NONE" /\ observed' = [status |-> "", conclusion |-> ""]
    /\ fetchFailures' = 0 /\ verification' = NotVerified
    /\ args' = <<"--status">>
    /\ UNCHANGED <<argv, BUMP_TYPE, NO_MONITOR, CMD_ARG, pre, lsRemoteFailed, jobVars, workerVars, other, verVars, steps, treeVars,
                   refVars, remoteVars, ciRuns, statusOut, release>>

\* The operator interrupts the monitor while it sleeps between two polls:
\* there is no trap, the shell ends on SIGINT with status 130.
Interrupt ==
    /\ pc = "poll" /\ cmd = "monitor"
    /\ polls > 0
    /\ Exit(130, "Interrupted")
    /\ UNCHANGED <<argVars, verVars, steps, treeVars, refVars, remoteVars, ciRuns,
                   monVars, statusOut, checkVars>>

\* How a monitor invocation can end without a verdict on the run.
EndedWithoutVerdict == err \in {"Interrupted", "RunNotFound"}

\* --monitor started again with the attempt counter of the invocation before.
MonitorAgainKeepingAttempts ==
    /\ pc = "exited" /\ cmd = "monitor" /\ EndedWithoutVerdict
    /\ invocation < MaxInvocations
    /\ pc' = "dispatch" /\ exitCode' = -1 /\ err' = ""
    /\ invocation' = invocation + 1
    /\ TAG' = <<>>
    /\ run_id' = 0 /\ clock' = 0 /\ polls' = 0
    /\ monState' = "NONE" /\ observed' = [status |-> "", conclusion |-> ""]
    /\ fetchFailures' = 0 /\ verification' = NotVerified
    /\ UNCHANGED <<args, argv, cmd, BUMP_TYPE, NO_MONITOR, CMD_ARG, pre, lsRemoteFailed, jobVars, workerVars, other,
                   CURRENT_VERSION, NEW_VERSION,
                   CONFIRM, steps, treeVars, refVars, remoteVars, ciRuns, statusOut,
                   release, attempts, lookups>>

\* The operator runs --monitor again with the same argument: a new process,
\* every local of cmd_monitor and the SECONDS clock as at any start; the
\* repository, the remote and the CI provider are as they were left.
MonitorAgain ==
    /\ pc = "exited" /\ cmd = "monitor" /\ EndedWithoutVerdict
    /\ invocation < MaxInvocations
    /\ pc' = "dispatch" /\ exitCode' = -1 /\ err' = ""
    /\ invocation' = invocation + 1
    /\ TAG' = <<>>
    /\ run_id' = 0 /\ attempts' = 0 /\ lookups' = 0 /\ clock' = 0 /\ polls' = 0
    /\ monState' = "NONE" /\ observed' = [status |-> "", conclusion |-> ""]
    /\ fetchFailures' = 0 /\ verification' = NotVerified
    /\ UNCHANGED <<args, argv, cmd, BUMP_TYPE, NO_MONITOR, CMD_ARG, pre, lsRemoteFailed, jobVars, workerVars, other,
                   CURRENT_VERSION, NEW_VERSION,
                   CONFIRM, steps, treeVars, refVars, remoteVars, ciRuns, statusOut,
                   release>>

\* ------------------------------------------------------------ specification

Next ==
    \/ Dispatch
    \/ ReadVersion \/ ComputeVersion
    \/ CheckDirty \/ CheckStaged \/ CheckLocalTag \/ FetchTags \/ CheckRemoteTag
    \/ BranchCheck \/ FetchOrigin \/ UpToDate
    \/ WriteVersion \/ CargoCheck \/ CommitMessage \/ FinalConfirm
    \/ GitAdd \/ GitCommit \/ GitTag \/ GitPush \/ GitPushTag
    \/ AutoMonitor
    \/ MonitorStart \/ Discover \/ Poll
    \/ CheckRelease
    \/ Status \/ StatusAfterRelease
    \/ CIStart \/ CIAdvance

Spec == Init /\ [][Next]_vars

\* ------------------------------------------- the bump, over many versions

BumpDigits == {"0", "1", "9"}
\* The digit strings of up to MaxComponentLen digits.
Components == UNION {[1..k -> BumpDigits] : k \in 1..MaxComponentLen}
BumpVersions == {Dotted(a, b, c) : a \in Components, b \in Components, c \in Components}

\* Version texts that are not three integers: two fields, a letter for a
\* field, four fields, nothing.
InvalidVersions ==
    {<<"1", ".", "2">>, <<"1", ".", "x", ".", "3">>,
     <<"1", ".", "2", ".", "3", ".", "4">>, <<>>}

\* A manifest without a version line.
NoVersionManifest == <<PackageLine, DepsLine>>

BumpManifests ==
    {StdManifest(v) : v \in BumpVersions \cup InvalidVersions} \cup {NoVersionManifest}

\* A release invocation in a clean repository whose manifest is any of
\* BumpManifests, followed up to the computation of NEW_VERSION and TAG.
InitBump ==
    /\ pc = "read_version" /\ cmd = "release"
    /\ BUMP_TYPE \in BumpType /\ NO_MONITOR = FALSE /\ CMD_ARG = <<>>
    /\ args = <<BUMP_TYPE>> /\ argv = <<>>
    /\ CURRENT_VERSION = <<>> /\ NEW_VERSION = <<>> /\ TAG = <<>> /\ CONFIRM = ""
    /\ invocation = 1 /\ lsRemoteFailed = FALSE
    /\ job = NoJob /\ icon = ""
    /\ request = NoRequest /\ kv = NoValue /\ response = NoResponse
    /\ other = NoOther
    /\ exitCode = -1 /\ err = "" /\ steps = <<>>
    /\ \E m \in BumpManifests : DefaultRepo(m)
    /\ remoteTags = (OldTag :> 1)
    /\ pre = [toml |-> wtToml, lock |-> wtLock, dirty |-> otherDirty,
              staged |-> FALSE,
              head |-> head, commits |-> commits, localTags |-> localTags,
              originMain |-> originMain,
              remoteBranch |-> remoteBranch, remoteTags |-> remoteTags]
    /\ ciRuns = <<>>
    /\ run_id = 0 /\ attempts = 0 /\ lookups = 0 /\ clock = 0 /\ polls = 0
    /\ monState = "NONE" /\ observed = [status |-> "", conclusion |-> ""]
    /\ fetchFailures = 0
    /\ statusOut = [shown |-> FALSE, ver |-> <<>>, tag |-> <<>>]
    /\ release = NoRelease /\ verification = NotVerified

NextBump == ReadVersion \/ ComputeVersion

SpecBump == InitBump /\ [][NextBump]_vars

\* ------------------------------------------------------------------ claims

RECURSIVE SplitDots(_)
\* The dot-separated parts of a text, all of them.
SplitDots(s) ==
    IF IdxOf(s, ".") = 0 THEN <<s>>
    ELSE <<SubSeq(s, 1, IdxOf(s, ".") - 1)>>
           \o SplitDots(SubSeq(s, IdxOf(s, ".") + 1, Len(s)))

\* A non-negative integer as semantic versioning writes it: digits, without a
\* leading zero.
IsNumeral(s) ==
    /\ s # <<>>
    /\ \A i \in 1..Len(s) : s[i] \in Digit
    /\ (Len(s) > 1 => s[1] # "0")

IsSemVer(v) == LET p == SplitDots(v) IN Len(p) = 3 /\ \A i \in 1..3 : IsNumeral(p[i])

NumeralValue(s) == ValueInBase(s, 10)

\* X.Y.(Z+1), X.(Y+1).0 and (X+1).0.0 of a version X.Y.Z.
ExpectedBump(v, kind) ==
    LET p == SplitDots(v)
        X == NumeralValue(p[1])
        Y == NumeralValue(p[2])
        Z == NumeralValue(p[3])
    IN CASE kind = "patch" -> Dotted(ToDecimal(X), ToDecimal(Y), ToDecimal(Z + 1))
         [] kind = "minor" -> Dotted(ToDecimal(X), ToDecimal(Y + 1), ToDecimal(0))
         [] kind = "major" -> Dotted(ToDecimal(X + 1), ToDecimal(0), ToDecimal(0))

\* C1: for every manifest version X.Y.Z of non-negative integers, the release
\* flow computes X.Y.(Z+1) for patch, X.(Y+1).0 for minor and (X+1).0.0 for
\* major, and the tag is "v" followed by the new version.
C1_BumpComputesNextVersion ==
    (cmd = "release" /\ TAG # <<>> /\ IsSemVer(CURRENT_VERSION)) =>
        /\ NEW_VERSION = ExpectedBump(CURRENT_VERSION, BUMP_TYPE)
        /\ TAG = <<"v">> \o ExpectedBump(CURRENT_VERSION, BUMP_TYPE)

\* 1.9.9 bumped: a carry into a second digit, for each kind of bump.
C1_Witness ==
    /\ pc = "check_dirty"
    /\ CURRENT_VERSION = <<"1", ".", "9", ".", "9">>
    /\ BUMP_TYPE = "minor"
    /\ NEW_VERSION = <<"1", ".", "1", "0", ".", "0">>
    /\ TAG = <<"v", "1", ".", "1", "0", ".", "0">>

\* ---- the release flow

\* The flow has reached the manifest write (and with it everything after).
ReachedWrite == pc = "write_version" \/ steps # <<>>

StepDone(step) == \E i \in 1..Len(steps) : steps[i] = step

PreflightErrors == {"DirtyWorkingTree", "StagedChanges", "LocalTagExists",
                    "RemoteTagExists", "BranchDeclined", "RemoteDiverged"}

\* No commit, no tag of the script's making, nothing pushed.
NothingCommittedOrPushed ==
    /\ head = pre.head /\ commits = pre.commits
    /\ remoteBranch = pre.remoteBranch /\ remoteTags = pre.remoteTags
    /\ \A t \in DOMAIN localTags :
         t \in DOMAIN pre.localTags \/ (t \in DOMAIN remoteTags /\ localTags[t] = remoteTags[t])

TreeAsBefore == wtToml = pre.toml /\ wtLock = pre.lock /\ otherDirty = pre.dirty

\* C2: when a preflight check fails, the release exits non-zero with the
\* manifest and the tracked working tree as they were before the invocation
\* and with no commit, tag or push performed.
C2_PreflightFailureHasNoEffect ==
    (cmd = "release" /\ pc = "exited" /\ err \in PreflightErrors) =>
        /\ exitCode # 0
        /\ TreeAsBefore
        /\ steps = <<>>
        /\ NothingCommittedOrPushed

\* A release stopped by the up-to-date check, the last of the preflight.
C2_Witness ==
    /\ cmd = "release" /\ pc = "exited" /\ err = "RemoteDiverged"
    /\ pre.toml # pre.commits[pre.head].toml

\* C3: a release never reaches the manifest write, nor commit, tag or push,
\* when at preflight a tracked file other than the manifest and its lockfile
\* has unstaged changes or the index holds a staged change.
C3_DirtyOrStagedNeverReachesWrite ==
    (pre.dirty \/ pre.staged) => ~ReachedWrite

\* A release stopped for a change to the manifest that is staged.
C3_Witness ==
    /\ cmd = "release" /\ pc = "exited" /\ err = "StagedChanges"
    /\ ~pre.dirty /\ ~otherStaged /\ idxToml # commits[head].toml

\* C4: a release never reaches the manifest write, nor commit, tag or push,
\* when the tag of the new version already exists locally or on the remote.
C4_ExistingTagNeverReachesWrite ==
    (cmd = "release" /\ TAG # <<>>
       /\ (TAG \in DOMAIN pre.localTags \/ TAG \in DOMAIN pre.remoteTags))
    => ~ReachedWrite

\* C5: a release goes past preflight only when the remote branch holds no
\* commit that local HEAD lacks.
C5_NeverProceedsWhenBehind ==
    (cmd = "release" /\ pc = "write_version") =>
        (originMain = 0 \/ IsAncestor(commits, originMain, head))

TransactionOrder == <<"write", "add", "commit", "tag", "push", "push_tag">>

IsPrefix(a, b) == Len(a) <= Len(b) /\ SubSeq(b, 1, Len(a)) = a

\* C6: the transaction runs stage, commit, tag, push branch, push tag in that
\* order, and once the tag is pushed the commit it points to is on the
\* remote branch.
C6_BranchPushedBeforeTag ==
    /\ ~StepDone("revert") => IsPrefix(steps, TransactionOrder)
    /\ StepDone("push_tag") =>
         /\ TAG \in DOMAIN remoteTags
         /\ remoteTags[TAG] = head
         /\ IsAncestor(commits, remoteTags[TAG], remoteBranch[branch])

C6_Witness ==
    /\ pc = "auto_monitor" /\ steps = TransactionOrder
    /\ remoteTags[TAG] = 4 /\ remoteBranch[branch] = 4

\* C7: when the operator declines the final confirmation, the release exits
\* non-zero with no commit, tag or push, and with the manifest and the working
\* tree as they were before the invocation.
C7_DeclineLeavesTreeAsBefore ==
    (cmd = "release" /\ pc = "exited" /\ err = "Aborted") =>
        /\ exitCode # 0
        /\ NothingCommittedOrPushed
        /\ TreeAsBefore

CleanStart ==
    /\ pre.toml = pre.commits[pre.head].toml
    /\ pre.lock = pre.commits[pre.head].lock
    /\ ~pre.dirty /\ ~pre.staged

\* C8: from a valid manifest version, a clean tree and no tag of the bumped
\* version, a release whose steps all succeed ends with a new commit on the
\* remote branch and the tag of the new version at it, locally and remotely,
\* and a --status that follows reports the bumped version and that tag.
C8_ReleaseEndToEnd ==
    (StepDone("push_tag") /\ CleanStart /\ IsSemVer(CURRENT_VERSION)
       /\ TAG \notin DOMAIN pre.localTags /\ TAG \notin DOMAIN pre.remoteTags)
    => /\ NEW_VERSION = ExpectedBump(CURRENT_VERSION, BUMP_TYPE)
       /\ TAG = <<"v">> \o NEW_VERSION
       /\ head \notin DOMAIN pre.commits /\ commits[head].parent = pre.head
       /\ CargoPackageVersion(commits[head].toml) = NEW_VERSION
       /\ remoteBranch[branch] = head
       /\ localTags[TAG] = head /\ remoteTags[TAG] = head
       /\ statusOut.shown => (statusOut.ver = NEW_VERSION /\ statusOut.tag = TAG)

\* 0.1.1 released with a patch bump, then --status: 0.1.2 and v0.1.2.
C8_Witness ==
    /\ StepDone("push_tag") /\ CleanStart
    /\ pre.toml = StdManifest(V011) /\ BUMP_TYPE = "patch"
    /\ statusOut = [shown |-> TRUE, ver |-> V012, tag |-> PatchTag]

\* ---- the monitor

\* The --monitor command alone, its loops run to their end.
InitMonitor == Init /\ cmd = "monitor"

NextMonitor ==
    \/ Dispatch \/ MonitorStart \/ Discover \/ Poll \/ CheckRelease
    \/ CIStart \/ CIAdvance

SpecMonitor == InitMonitor /\ [][NextMonitor]_vars /\ WF_vars(Discover)

DiscoveryBounded ==
    /\ lookups <= max_attempts
    /\ pc = "discover" =>
         /\ run_id = 0
         /\ lookups = attempts /\ attempts < max_attempts
         /\ clock = DiscoverSleep * attempts
    /\ run_id # 0 => lookups = attempts + 1
    /\ err = "RunNotFound" =>
         /\ pc = "exited" /\ exitCode = 1
         /\ run_id = 0 /\ lookups = max_attempts

\* C9: the run discovery always terminates: at most 30 lookups, 10 time units
\* of waiting after each one that finds nothing and is followed by another,
\* ending at the first lookup that returns a run or, once the 30th finds
\* nothing, with RunNotFound and exit code 1.
C9_DiscoveryTerminates ==
    /\ []DiscoveryBounded
    /\ (pc = "discover") ~> (pc \in {"poll", "exited"})

C9_Witness ==
    /\ cmd = "monitor" /\ pc = "exited" /\ err = "RunNotFound"
    /\ lookups = max_attempts /\ clock = DiscoverSleep * (max_attempts - 1)

\* C10: with a run located, the monitor leaves its loop at the first poll
\* that observes status completed, in COMPLETED_SUCCESS exactly when that
\* poll's conclusion is success and else in COMPLETED_FAILURE, returning
\* non-zero.
C10_PollEndsOnCompleted ==
    /\ pc = "poll" => observed.status # "completed"
    /\ monState = "COMPLETED_SUCCESS" <=>
         (observed.status = "completed" /\ observed.conclusion = "success")
    /\ monState = "COMPLETED_FAILURE" <=>
         (observed.status = "completed" /\ observed.conclusion # "success")
    /\ (monState = "COMPLETED_FAILURE" /\ cmd # "status") =>
         (pc = "exited" /\ exitCode = 1)

C10_Witness ==
    /\ monState = "COMPLETED_FAILURE" /\ polls >= 2
    /\ observed = [status |-> "completed", conclusion |-> "null"]

\* A --monitor invocation against a provider whose runs all conclude with
\* success; every loop iteration, provider step and verification that can be
\* taken is eventually taken.
CISucceeds == CIAdvanceTo({"success"})

NextSuccessRun ==
    \/ Dispatch \/ MonitorStart \/ Discover \/ Poll \/ CheckRelease
    \/ CIStart \/ CISucceeds

SpecSuccessRun ==
    /\ InitMonitor /\ [][NextSuccessRun]_vars
    /\ WF_vars(Dispatch) /\ WF_vars(MonitorStart) /\ WF_vars(Discover)
    /\ WF_vars(Poll) /\ WF_vars(CheckRelease)
    /\ WF_vars(CIStart) /\ WF_vars(CISucceeds)

TerminalStates == {"COMPLETED_SUCCESS", "COMPLETED_FAILURE"}

\* A terminal state, once reported, is the monitor's last report.
ReportedOnce == [][(monState \in TerminalStates) => (monState' = monState)]_vars

\* The same run is monitored to COMPLETED_SUCCESS unless a fetch of its status
\* fails, which ends the script at once.
SuccessRunUnlessFetchFails ==
    (pc = "poll") ~> (monState = "COMPLETED_SUCCESS" \/ fetchFailures > 0)

\* C11: for a run that goes queued -> in_progress -> completed with success,
\* the monitor, once it has located the run, eventually ends in
\* COMPLETED_SUCCESS, reports a terminal state once only and never reports
\* COMPLETED_FAILURE.
C11_SuccessRunEndsInSuccessOnce ==
    /\ [](monState # "COMPLETED_FAILURE")
    /\ ReportedOnce
    /\ (pc = "poll") ~> (monState = "COMPLETED_SUCCESS")

\* C12: a failed fetch of the run's status is retried: the error is surfaced
\* only after more than one fetch has failed.
C12_FetchErrorRetriedBeforeSurfacing ==
    err = "gh run view failed" => fetchFailures > 1

ExpectedSet == {EXPECTED_ARTIFACTS[i] : i \in 1..Len(EXPECTED_ARTIFACTS)}

\* C13: verification computes the set difference of the expected artifacts
\* and the release's asset names: found is the number of expected names among
\* the assets, the names reported missing are the expected names that are not
\* among them, found + missing is the number of expected artifacts, and a
\* missing artifact makes the verification fail.
C13_VerificationIsSetDifference ==
    verification.ran =>
        /\ verification.found = Cardinality(ExpectedSet \cap release.assets)
        /\ verification.reported = ExpectedSet \ release.assets
        /\ verification.missing = Cardinality(ExpectedSet \ release.assets)
        /\ verification.found + verification.missing = Len(EXPECTED_ARTIFACTS)
        /\ (ExpectedSet \ release.assets # {} => ~verification.all_ok)

\* The verdict follows the counts of the loop and the two probes, and the
\* exit code follows the verdict.
VerdictFollowsCounts ==
    verification.ran =>
        /\ verification.all_ok <=>
             (verification.missing = 0 /\ verification.linux = "200"
                                        /\ verification.macos = "200")
        /\ pc = "exited" /\ (exitCode = 0 <=> verification.all_ok)

\* C14: for a release that exists, verification succeeds (return 0) exactly
\* when every expected artifact is among the assets and both probes returned
\* 200, whatever other assets the release has and whether or not it is a
\* draft.
C14_SucceedsIffCompleteAndReachable ==
    verification.ran =>
        /\ verification.all_ok <=>
             (ExpectedSet \subseteq release.assets /\ verification.linux = "200"
                                                   /\ verification.macos = "200")
        /\ pc = "exited" /\ (exitCode = 0 <=> verification.all_ok)

\* C15: --status mutates nothing: no step of a --status invocation, its start
\* included, changes the manifest, the index, the working tree, the branches
\* and tags, the remote, the CI runs or the published release.
C15_StatusMutatesNothing ==
    [][(cmd' = "status") =>
         UNCHANGED <<treeVars, refVars, remoteVars, ciRuns, release>>]_vars

\* --status has run in the middle of a release: the release commit is made
\* and tagged, nothing is pushed.
C15_Witness ==
    /\ cmd = "status" /\ pc = "exited" /\ exitCode = 0 /\ statusOut.shown
    /\ StepDone("tag") /\ ~StepDone("push")
    /\ statusOut.ver = NEW_VERSION /\ TAG \notin DOMAIN remoteTags

\* The failures the script itself detects and the commands of the transaction.
FatalFailures ==
    PreflightErrors \cup
    {"git commit failed", "git tag failed", "git push failed", "git push tag failed",
     "RunNotFound", "CIFailure", "NoRelease", "VerificationMismatch"}

\* C16: an invocation exits with 0 when its command succeeded and with
\* exactly 1 on a failed preflight check, a failed commit, tag or push, a run
\* that is never found, a run that completes without success and a failed
\* verification.
C16_ExitCodeZeroOrOne ==
    pc = "exited" =>
        /\ err = "" <=> exitCode = 0
        /\ err \in FatalFailures => exitCode = 1

\* Three dot-separated non-negative integers.
IsThreeIntegers(v) ==
    LET p == SplitDots(v) IN
    /\ Len(p) = 3
    /\ \A i \in 1..3 : p[i] # <<>> /\ \A j \in 1..Len(p[i]) : p[i][j] \in Digit

\* C17: when the manifest has no version field, or its value is not three
\* dot-separated non-negative integers, reading the version fails: the flow
\* stops there with a non-zero exit and derives no new version and no tag.
C17_InvalidVersionStopsTheRelease ==
    ~IsThreeIntegers(CargoPackageVersion(pre.toml)) =>
        /\ pc \in {"read_version", "exited"}
        /\ pc = "exited" => exitCode = 1
        /\ NEW_VERSION = <<>> /\ TAG = <<>>

\* The line of the manifest that current_version reads, 0 when there is none.
VersionFieldIndex(m) ==
    IF \E i \in 1..Len(m) : StartsWith(m[i], VersionWord)
    THEN CHOOSE k \in 1..Len(m) :
           /\ StartsWith(m[k], VersionWord)
           /\ \A j \in 1..(k - 1) : ~StartsWith(m[j], VersionWord)
    ELSE 0

\* C18: the version write changes only the line of the version field that was
\* read: right after the write every other line of the manifest is as it was
\* before the invocation, and no line is added or removed.
C18_WriteChangesOnlyVersionField ==
    pc = "cargo_check" =>
        /\ Len(wtToml) = Len(pre.toml)
        /\ \A i \in 1..Len(wtToml) :
             i # VersionFieldIndex(pre.toml) => wtToml[i] = pre.toml[i]

\* The last progress line the script has printed once the steps in done have
\* run: "Committing and tagging..." before git add, "Pushing to origin..."
\* before git push.
LastInfo(done) ==
    IF \E i \in 1..Len(done) : done[i] = "tag"
    THEN "Pushing to origin..." ELSE "Committing and tagging..."

\* The steps that can be the last successful one when the script stops after
\* that progress line.
LastStepsAfter(info) ==
    IF info = "Committing and tagging..." THEN {"write", "add", "commit"}
    ELSE {"tag", "push"}

TransactionFailed ==
    /\ cmd = "release" /\ pc = "exited"
    /\ err \in {"git commit failed", "git tag failed", "git push failed",
                "git push tag failed"}

\* C19: when a step of the transaction fails, what the script has reported
\* determines the step that succeeded last.
C19_FailureReportsLastStep ==
    TransactionFailed => LastStepsAfter(LastInfo(steps)) = {steps[Len(steps)]}

\* C20: with --no-monitor, a release whose pushes succeeded only ends, with
\* exit code 0: it never looks for a CI run, polls one or verifies artifacts.
C20_NoMonitorSkipsCI ==
    (cmd = "release" /\ NO_MONITOR /\ StepDone("push_tag")) =>
        /\ pc \in {"auto_monitor", "exited"}
        /\ pc = "exited" => (exitCode = 0 /\ err = "")
        /\ lookups = 0 /\ polls = 0 /\ run_id = 0 /\ monState = "NONE"
        /\ ~verification.ran

C20_Witness ==
    /\ cmd = "release" /\ NO_MONITOR /\ StepDone("push_tag")
    /\ pc = "exited" /\ exitCode = 0
    /\ TAG \in DOMAIN remoteTags /\ remoteBranch["main"] = head

\* The preflight's positions, in the order of the script's text.
PreflightOrder ==
    <<"check_dirty", "check_staged", "check_local_tag", "fetch_tags",
      "check_remote_tag", "branch_check", "fetch", "up_to_date", "write_version">>

\* The position at which each preflight error is raised.
CheckOf(e) ==
    CASE e = "DirtyWorkingTree" -> "check_dirty"
      [] e = "StagedChanges" -> "check_staged"
      [] e = "LocalTagExists" -> "check_local_tag"
      [] e = "RemoteTagExists" -> "check_remote_tag"
      [] e = "BranchDeclined" -> "branch_check"
      [] e = "RemoteDiverged" -> "up_to_date"

\* C21: preflight evaluates its checks one at a time in the fixed order
\* DirtyWorkingTree, StagedChanges, LocalTagExists, RemoteTagExists,
\* BranchMismatch, RemoteDiverged: from each check control passes to the next
\* one or the script exits, a check whose condition holds ends the script with
\* its own error, and an error is raised only at its own check, with every
\* earlier check's condition false.
C21_PreflightStopsAtFirstFailure ==
    [][/\ \A i \in 1..(Len(PreflightOrder) - 1) :
            pc = PreflightOrder[i] => pc' \in {PreflightOrder[i + 1], "exited"}
       /\ \A e \in PreflightErrors : (err # e /\ err' = e) => pc = CheckOf(e)
       /\ (pc = "check_dirty" /\ HasUncommittedChanges) => err' = "DirtyWorkingTree"
       /\ (pc = "check_staged" /\ HasStagedChanges) => err' = "StagedChanges"
       /\ (pc = "check_local_tag" /\ LocalTagExists) => err' = "LocalTagExists"
       /\ (pc = "up_to_date" /\ NotUpToDate(commits, head, originMain)) =>
             err' = "RemoteDiverged"
       /\ (err' \in PreflightErrors \ {"DirtyWorkingTree"}) => ~HasUncommittedChanges
       /\ (err' \in PreflightErrors \ {"DirtyWorkingTree", "StagedChanges"}) =>
             ~HasStagedChanges
       /\ (err' \in {"RemoteTagExists", "BranchDeclined", "RemoteDiverged"}) =>
             TAG \notin DOMAIN pre.localTags
       /\ err' = "RemoteTagExists" => TAG \in DOMAIN remoteTags
       /\ err' = "BranchDeclined" => branch # "main"
       /\ (err' \in PreflightErrors) => pc' = "exited"]_vars

\* The local tag check stopped a release that the remote tag check, the branch
\* check and the up-to-date check would have stopped as well.
C21_Witness ==
    /\ pc = "exited" /\ err = "LocalTagExists"
    /\ TAG \in DOMAIN remoteTags
    /\ branch # "main"
    /\ NotUpToDate(commits, head, remoteBranch["main"])

\* A release invocation that has not yet written the manifest: it is at the
\* preflight, before it, or has exited from one of the two.
BeforeWrite == cmd = "release" /\ steps = <<>> /\ pc # "write_version"

\* The working tree, the index, the branch and its commits as at the start.
WorkAsBefore ==
    /\ TreeAsBefore
    /\ head = pre.head /\ commits = pre.commits
    /\ remoteBranch = pre.remoteBranch /\ remoteTags = pre.remoteTags

C24_OtherBranchAsksOperator ==
    [][pc = "branch_check" =>
         /\ branch = "main" => (pc' = "fetch" /\ CONFIRM' = CONFIRM)
         /\ (branch # "main" /\ CONFIRM' = "y") => pc' = "fetch"
         /\ (branch # "main" /\ CONFIRM' # "y") =>
               /\ pc' = "exited" /\ exitCode' = 1
               /\ UNCHANGED <<treeVars, refVars, remoteVars, steps>>]_vars

\* A release from another branch that the operator confirmed has passed the
\* remaining checks.
C24_Witness ==
    /\ cmd = "release" /\ branch = "dev" /\ CONFIRM = "y"
    /\ pc = "write_version"

\* The positions of the commit, tag, push-branch and push-tag steps, and the
\* error each one ends the script with when it fails.
FailureOf(l) ==
    CASE l = "git_commit" -> "git commit failed"
      [] l = "git_tag" -> "git tag failed"
      [] l = "git_push" -> "git push failed"
      [] l = "git_push_tag" -> "git push tag failed"

TransactionSteps == {"git_commit", "git_tag", "git_push", "git_push_tag"}

\* The steps completed when the step at position l failed.
DoneBefore(l) ==
    CASE l = "git_commit" -> <<"write", "add">>
      [] l = "git_tag" -> <<"write", "add", "commit">>
      [] l = "git_push" -> <<"write", "add", "commit", "tag">>
      [] l = "git_push_tag" -> <<"write", "add", "commit", "tag", "push">>

\* The effects of the completed steps are there: the release commit on top of
\* the old HEAD, the tag on it, the branch on the remote.
CompletedStepsInPlace ==
    /\ StepDone("commit") =>
          /\ head \notin DOMAIN pre.commits
          /\ commits[head].parent = pre.head
          /\ commits[head].toml = wtToml
    /\ StepDone("tag") => (TAG \in DOMAIN localTags /\ localTags[TAG] = head)
    /\ StepDone("push") => remoteBranch[branch] = head

\* C25: a failing step of commit, tag, push branch, push tag ends the release
\* at once with a non-zero exit: the step is left in one move (no retry), the
\* steps recorded are exactly those before it, and what they did stays.
C25_FailedStepEndsRelease ==
    /\ [](\A l \in TransactionSteps :
            (cmd = "release" /\ pc = "exited" /\ err = FailureOf(l)) =>
                /\ exitCode \notin {-1, 0}
                /\ steps = DoneBefore(l)
                /\ CompletedStepsInPlace)
    /\ [][\A l \in TransactionSteps :
            pc = l => /\ pc' # l
                      /\ err' = FailureOf(l) <=> pc' = "exited"]_vars

\* The push of the branch failed after the commit and the tag were made.
C25_Witness ==
    /\ cmd = "release" /\ pc = "exited" /\ err = "git push failed"
    /\ head # pre.head /\ TAG \in DOMAIN localTags

\* The positions inside cmd_monitor and the cmd_check it calls.
MonitorPositions == {"monitor", "discover", "poll", "check"}

\* C26: the stages are gated on each other: in the release flow the search
\* for the CI run starts only after the tag was pushed; polling starts only
\* with a run found; and in the release and --monitor flows the artifacts are
\* verified only after the run was seen completed with conclusion success.
C26_StagesGatedOnSuccess ==
    /\ (cmd = "release" /\ (pc \in MonitorPositions \/ lookups > 0)) =>
          (StepDone("push_tag") /\ TAG \in DOMAIN remoteTags)
    /\ (pc = "poll" \/ polls > 0) => (run_id # 0 /\ lookups > 0)
    /\ (cmd \in {"release", "monitor"} /\ (pc = "check" \/ verification.ran)) =>
          /\ polls > 0
          /\ monState = "COMPLETED_SUCCESS"
          /\ observed = [status |-> "completed", conclusion |-> "success"]
          /\ RunOf(run_id).status = "completed"
          /\ RunOf(run_id).conclusion = "success"

\* A release went through every stage: tag pushed, run found, run polled to
\* success, artifacts verified.
C26_Witness ==
    /\ cmd = "release" /\ StepDone("push_tag")
    /\ run_id # 0 /\ polls > 0
    /\ verification.ran

\* C27: whenever the run lookup returns a run, it is the run the given tag
\* triggered, never the run of another tag.
C27_LocatedRunIsOfTheTag ==
    run_id # 0 => RunOf(run_id).tag = TAG

\* C28: the monitor loop has no bound of its own: the script leaves the
\* polling position only by a failed fetch or by seeing the run completed, and
\* a poll that succeeds and finds the run not completed goes back to polling
\* after the sleep, whatever the number of polls and the time elapsed.
C28_PollingEndsOnlyOnCompletedOrError ==
    [][pc = "poll" =>
         /\ (pc' # "poll") =>
               (fetchFailures' > fetchFailures \/ observed'.status = "completed")
         /\ (polls' = polls + 1 /\ observed'.status # "completed") =>
               (pc' = "poll" /\ clock' = clock + PollSleep
                  /\ monState' = "POLLING" /\ exitCode' = -1)]_vars

\* The monitor is still polling after as many polls as the model follows, the
\* run not completed and no fetch having failed.
C28_Witness ==
    /\ pc = "poll" /\ polls = MaxPolls
    /\ observed.status \in {"queued", "in_progress"}
    /\ fetchFailures = 0 /\ monState = "POLLING"
    /\ clock >= MaxPolls * PollSleep

\* C29: every verification probes the two platform archives of the release,
\* the Linux and the macOS one: both results are there also when artifacts are
\* missing or the first probe failed, a probe answers 200 only for an archive
\* the release holds, and the verdict is good only with 200 from both, every
\* other code making the verification fail.
C29_BothProbesAlwaysRunAndNeed200 ==
    verification.ran =>
        /\ verification.linux \in ProbeCodes(release, LinuxArchive)
        /\ verification.macos \in ProbeCodes(release, MacosArchive)
        /\ verification.linux = "200" => LinuxArchive \in release.assets
        /\ verification.macos = "200" => MacosArchive \in release.assets
        /\ verification.all_ok =>
              (verification.linux = "200" /\ verification.macos = "200")
        /\ (verification.linux # "200" \/ verification.macos # "200") =>
              (pc = "exited" /\ exitCode = 1 /\ err = "VerificationMismatch")

\* Artifacts are missing and the first probe failed; the second probe was
\* made all the same and answered 200.
C29_Witness ==
    /\ verification.ran /\ verification.missing > 0
    /\ verification.linux # "200"
    /\ verification.macos = "200"

\* --monitor of one tag with one CI run, interrupted and started again.
InitReinvoke ==
    /\ InitMonitor /\ CMD_ARG = PatchTag
    /\ LongerTag \notin DOMAIN remoteTags

NextReinvoke == NextMonitor \/ Interrupt \/ MonitorAgain

SpecReinvoke == InitReinvoke /\ [][NextReinvoke]_vars

\* The locals of cmd_monitor as a new process has them.
MonitorLocalsFresh ==
    /\ run_id = 0 /\ attempts = 0 /\ lookups = 0 /\ clock = 0 /\ polls = 0
    /\ monState = "NONE" /\ fetchFailures = 0
    /\ observed = [status |-> "", conclusion |-> ""]

\* The terminal state the run with identifier id leads to, once completed.
VerdictOf(id) ==
    IF RunOf(id).conclusion = "success" THEN "COMPLETED_SUCCESS" ELSE "COMPLETED_FAILURE"

\* C30: the monitor's result depends on nothing an earlier invocation or poll
\* left behind: every invocation, the first or one after an interrupt or a
\* discovery timeout, starts with fresh locals and a full discovery budget,
\* and the terminal state it reaches is the one fixed by the conclusion of the
\* tag's CI run, which does not change once the run is completed.
C30_ResultDependsOnRunOnly ==
    /\ []((pc \in {"dispatch", "monitor"}) => MonitorLocalsFresh)
    /\ [](pc = "discover" => (lookups = attempts /\ attempts < max_attempts))
    /\ []((monState \in TerminalStates) =>
            /\ RunOf(run_id).tag = TAG /\ TAG = CMD_ARG
            /\ RunOf(run_id).status = "completed"
            /\ monState = VerdictOf(run_id))
    /\ [][\A i \in 1..Len(ciRuns) :
            ciRuns[i].status = "completed" =>
                (Len(ciRuns') = Len(ciRuns) /\ ciRuns'[i] = ciRuns[i])]_vars

\* The second invocation, started after an interrupt or a discovery timeout,
\* has reached a terminal state.
C30_Witness ==
    /\ cmd = "monitor" /\ invocation = 2
    /\ monState \in TerminalStates

\* C37: the remote tag check fails closed: when the query of the remote's tag
\* refs did not complete, the release goes no further: it does not reach the
\* branch check, the manifest write or the transaction.
C37_RemoteTagCheckFailsClosed ==
    (cmd = "release" /\ lsRemoteFailed) => (pc = "exited" /\ steps = <<>>)

\* The release has written the manifest and has exited before a release
\* commit was created.
ExitedBetweenWriteAndCommit ==
    /\ cmd = "release" /\ pc = "exited"
    /\ StepDone("write") /\ ~StepDone("commit")

\* C34: every exit of the release after the manifest write and before the
\* release commit leaves the manifest at the version it had before the
\* invocation.
C34_ExitAfterWriteLeavesOldVersion ==
    ExitedBetweenWriteAndCommit =>
        current_version(wtToml) = current_version(pre.toml)

\* C35: after the version write the manifest reads the new version, and when
\* the release has created the tag, the manifest of the tagged commit reads
\* the version the tag names.
C35_TaggedManifestReadsNewVersion ==
    /\ (cmd = "release" /\ pc = "cargo_check") =>
          current_version(wtToml) = [ok |-> TRUE, out |-> NEW_VERSION]
    /\ (cmd = "release" /\ StepDone("tag")) =>
          current_version(commits[localTags[TAG]].toml) = [ok |-> TRUE, out |-> NEW_VERSION]

\* C36: the release commit holds exactly the version change of this
\* invocation: its manifest is its parent's with the version field rewritten,
\* its lockfile its parent's with the package's version brought up to date,
\* and no edit that was in the working tree before the invocation.
C36_ReleaseCommitHoldsOnlyVersionChange ==
    (cmd = "release" /\ StepDone("commit")) =>
        LET parent == commits[commits[head].parent] IN
        /\ commits[head].toml = sed_write(parent.toml, CURRENT_VERSION, NEW_VERSION)
        /\ commits[head].lock.edited = parent.lock.edited

\* The words of a command line.
ArgWords ==
    {"--status", "--monitor", "--check", "--no-monitor", "--help",
     "patch", "minor", "v0.1.2", ""}

CommandLines == UNION {[1..n -> ArgWords] : n \in 0..MaxArgs}

\* The script started with any command line on the repository as a release
\* expects it.
InitArgs ==
    /\ pc = "parse"
    /\ args \in CommandLines /\ argv = args
    /\ cmd = "" /\ BUMP_TYPE = "" /\ NO_MONITOR = FALSE /\ CMD_ARG = <<>>
    /\ CURRENT_VERSION = <<>> /\ NEW_VERSION = <<>> /\ TAG = <<>> /\ CONFIRM = ""
    /\ invocation = 1 /\ lsRemoteFailed = FALSE
    /\ job = NoJob /\ icon = ""
    /\ request = NoRequest /\ kv = NoValue /\ response = NoResponse
    /\ other = NoOther
    /\ exitCode = -1 /\ err = "" /\ steps = <<>>
    /\ DefaultRepo(StdManifest(V011))
    /\ remoteTags = (OldTag :> 1)
    /\ pre = [toml |-> wtToml, lock |-> wtLock, dirty |-> otherDirty,
              staged |-> FALSE,
              head |-> head, commits |-> commits, localTags |-> localTags,
              originMain |-> originMain,
              remoteBranch |-> remoteBranch, remoteTags |-> remoteTags]
    /\ ciRuns = <<>>
    /\ run_id = 0 /\ attempts = 0 /\ lookups = 0 /\ clock = 0 /\ polls = 0
    /\ monState = "NONE" /\ observed = [status |-> "", conclusion |-> ""]
    /\ fetchFailures = 0
    /\ statusOut = [shown |-> FALSE, ver |-> <<>>, tag |-> <<>>]
    /\ release = NoRelease /\ verification = NotVerified

\* The parser, the dispatch, and the release flow up to the manifest write.
NextArgs ==
    \/ ParseArg \/ ParseDone \/ Dispatch \/ Status
    \/ ReadVersion \/ ComputeVersion
    \/ CheckDirty \/ CheckStaged \/ CheckLocalTag \/ FetchTags \/ CheckRemoteTag
    \/ BranchCheck \/ FetchOrigin \/ UpToDate \/ WriteVersion

SpecArgs == InitArgs /\ [][NextArgs]_vars

\* The command line names one of the commands that only look.
NamesReadOnlyCommand ==
    \E i \in 1..Len(args) : args[i] \in {"--status", "--monitor", "--check"}

\* C38: an invocation whose arguments include --status, --monitor or --check
\* never writes the manifest (and so never commits, tags or pushes), whatever
\* other arguments precede or follow.
C38_ReadOnlyCommandNeverReleases ==
    NamesReadOnlyCommand => steps = <<>>

\* The duration a printed elapsed time stands for, in seconds.
ShownSeconds(d) == d[1] * 3600 + d[2] * 60 + d[3]

\* A later time is never printed as a shorter duration, through the changes
\* of format at one minute and at one hour.
FmtDurationMonotone ==
    \A t \in 0..(MaxSeconds - 1) :
        ShownSeconds(fmt_duration(t)) <= ShownSeconds(fmt_duration(t + 1))

\* C33: within one monitor invocation the elapsed time printed at successive
\* polls never decreases, and the total printed at termination is not smaller
\* than the elapsed time of any earlier poll.
C33_ElapsedNeverDecreases ==
    /\ []FmtDurationMonotone
    /\ [](pc = "poll" => clock >= start_time)
    /\ [][(pc = "poll" /\ invocation' = invocation) =>
            /\ clock' - start_time' >= clock - start_time
            /\ ShownSeconds(elapsed') >= ShownSeconds(elapsed)]_vars

\* The monitor has ended after a discovery that slept and after polls that
\* slept: the total printed is larger than the first elapsed time.
C33_Witness ==
    /\ monState \in TerminalStates
    /\ attempts > 0 /\ polls > 2
    /\ ShownSeconds(elapsed) >= 2 * PollSleep

\* Jobs of a run: names with and without the separator of the job line,
\* every status, every conclusion (null while the job has none).
JobNames == {<<"b">>, <<"b", " ", "(", "x", ")">>, <<"a", "|", "b">>}
JobStatuses == {<<"queued">>, <<"in_progress">>, <<"completed">>, <<"waiting">>}
JobConclusions ==
    {<<"success">>, <<"failure">>, <<"cancelled">>, <<"skipped">>, <<"null">>,
     <<"neutral">>, <<"timed_out">>}

\* The monitor is about to render one job of the run it polls.
InitJobs ==
    /\ pc = "render" /\ cmd = "monitor"
    /\ args = <<"--monitor">> /\ argv = <<>>
    /\ BUMP_TYPE = "patch" /\ NO_MONITOR = FALSE /\ CMD_ARG = <<>>
    /\ CURRENT_VERSION = <<>> /\ NEW_VERSION = <<>> /\ TAG = PatchTag /\ CONFIRM = ""
    /\ invocation = 1 /\ lsRemoteFailed = FALSE
    /\ job \in [name : JobNames, status : JobStatuses, conclusion : JobConclusions]
    /\ icon = ""
    /\ request = NoRequest /\ kv = NoValue /\ response = NoResponse
    /\ other = NoOther
    /\ exitCode = -1 /\ err = "" /\ steps = <<>>
    /\ DefaultRepo(StdManifest(V011))
    /\ remoteTags = (OldTag :> 1) @@ (PatchTag :> 1)
    /\ pre = [toml |-> wtToml, lock |-> wtLock, dirty |-> otherDirty,
              staged |-> FALSE,
              head |-> head, commits |-> commits, localTags |-> localTags,
              originMain |-> originMain,
              remoteBranch |-> remoteBranch, remoteTags |-> remoteTags]
    /\ ciRuns = <<>>
    /\ run_id = 0 /\ attempts = 0 /\ lookups = 0 /\ clock = 0 /\ polls = 0
    /\ monState = "POLLING" /\ observed = [status |-> "", conclusion |-> ""]
    /\ fetchFailures = 0
    /\ statusOut = [shown |-> FALSE, ver |-> <<>>, tag |-> <<>>]
    /\ release = NoRelease /\ verification = NotVerified

\* One turn of the loop over the job lines: read the fields, pick the icon,
\* print the line.
RenderJob ==
    /\ pc = "render"
    /\ LET f == ReadJobFields(JobLine(job)) IN icon' = Icon(f[2], f[3])
    /\ pc' = "rendered"
    /\ UNCHANGED <<job, invVars, lsRemoteFailed, workerVars, other, verVars, exitCode, err, steps, treeVars,
                   refVars, remoteVars, ciRuns, monVars, statusOut, checkVars>>

SpecJobs == InitJobs /\ [][RenderJob]_vars

\* C32: what is rendered for a job is chosen by the job's conclusion when
\* that is success, failure, cancelled or skipped, whatever its status; for
\* any other conclusion the status decides: in_progress, queued, else unknown.
C32_IconFollowsConclusionFirst ==
    pc = "rendered" => icon = Icon(job.status, job.conclusion)

\* Requests: the methods and paths the handler tells apart; the platform
\* parameter absent, empty, a platform of the manifest, one that is not, and
\* the name of a property every object has.
Requests ==
    [method : {"GET", "OPTIONS", "POST"},
     path : {"/health", "/api/releases/latest", "/other"},
     platform : {JsNull, JsText(""), JsText("linux-x86_64"), JsText("freebsd"),
                 JsText("constructor")}]

LinuxEntry == JsObject([url |-> JsText("u"), sha256 |-> JsText("s"), size |-> JsNumber])

FullManifest ==
    JsObject([version |-> JsText("0.1.2"), pub_date |-> JsText("d"),
              platforms |-> JsObject(("linux-x86_64" :> LinuxEntry))])

\* Values of the key: none, the empty text, a text that is not JSON, and JSON
\* for null, a number, an object without platforms, a manifest.
StoredValues ==
    {NoValue, StoredText(""), StoredText("not json"), StoredJson(JsNull),
     StoredJson(JsNumber), StoredJson(JsObject([version |-> JsText("0.1.2")])),
     StoredJson(FullManifest)}

\* The worker receives one request.
InitWorker ==
    /\ pc = "worker" /\ cmd = "status"
    /\ args = <<"--status">> /\ argv = <<>>
    /\ BUMP_TYPE = "patch" /\ NO_MONITOR = FALSE /\ CMD_ARG = <<>>
    /\ CURRENT_VERSION = <<>> /\ NEW_VERSION = <<>> /\ TAG = <<>> /\ CONFIRM = ""
    /\ invocation = 1 /\ lsRemoteFailed = FALSE
    /\ job = NoJob /\ icon = ""
    /\ request \in Requests /\ kv \in StoredValues /\ response = NoResponse
    /\ other = NoOther
    /\ exitCode = -1 /\ err = "" /\ steps = <<>>
    /\ DefaultRepo(StdManifest(V011))
    /\ remoteTags = (OldTag :> 1)
    /\ pre = [toml |-> wtToml, lock |-> wtLock, dirty |-> otherDirty,
              staged |-> FALSE,
              head |-> head, commits |-> commits, localTags |-> localTags,
              originMain |-> originMain,
              remoteBranch |-> remoteBranch, remoteTags |-> remoteTags]
    /\ ciRuns = <<>>
    /\ run_id = 0 /\ attempts = 0 /\ lookups = 0 /\ clock = 0 /\ polls = 0
    /\ monState = "NONE" /\ observed = [status |-> "", conclusion |-> ""]
    /\ fetchFailures = 0
    /\ statusOut = [shown |-> FALSE, ver |-> <<>>, tag |-> <<>>]
    /\ release = NoRelease /\ verification = NotVerified

\* The handler runs to its return or to the exception it lets escape.
WorkerFetch ==
    /\ pc = "worker"
    /\ response' = Fetch(request, kv)
    /\ pc' = "responded"
    /\ UNCHANGED <<request, kv, other, invVars, lsRemoteFailed, jobVars, verVars, exitCode, err,
                   steps, treeVars, refVars, remoteVars, ciRuns, monVars, statusOut,
                   checkVars>>

SpecWorker == InitWorker /\ [][WorkerFetch]_vars

\* The stored value is a manifest the handler can use: JSON for an object
\* whose platforms is an object.
UsableManifest(store) ==
    /\ store.json /\ store.value.kind = "object"
    /\ "platforms" \in DOMAIN store.value.props
    /\ store.value.props["platforms"].kind = "object"

\* The status the worker is to answer /api/releases/latest with.
ExpectedLatestStatus(req, store) ==
    IF req.platform.kind = "null" \/ req.platform = JsText("") THEN 400
    ELSE IF ~store.stored THEN 404
    ELSE IF ~UsableManifest(store) THEN 500
    ELSE IF req.platform.text \notin DOMAIN store.value.props["platforms"].props THEN 404
    ELSE 200

\* C39: the handler answers every request, for every stored value, without
\* throwing and without writing the store; for /api/releases/latest with 400
\* when the platform is missing, else 404 when nothing is stored, else 500
\* when the stored value is not a usable manifest, else 404 when the manifest
\* has no entry for the platform, else 200 with the entry's url, sha256 and
\* size and the manifest's version and pub_date.
C39_WorkerAlwaysAnswers ==
    /\ [](pc = "responded" =>
            /\ response.done /\ ~response.threw
            /\ (request.method # "OPTIONS" /\ request.path = "/api/releases/latest") =>
                  /\ response.status = ExpectedLatestStatus(request, kv)
                  /\ response.status = 200 =>
                        LET entry == kv.value.props["platforms"].props[request.platform.text]
                        IN response.body =
                             JsObject([version |-> Get(kv.value, "version").value,
                                       url |-> Get(entry, "url").value,
                                       sha256 |-> Get(entry, "sha256").value,
                                       size |-> Get(entry, "size").value,
                                       pub_date |-> Get(kv.value, "pub_date").value]))
    /\ [][kv' = kv]_vars

\* ------------------------------------------- two overlapping invocations

\* The other invocation's step changes only its own state and what OtherFrame
\* does not list.
OtherFrame ==
    UNCHANGED <<pc, invVars, lsRemoteFailed, jobVars, workerVars, verVars, exitCode, err,
                steps, treeVars, branch, head, originMain, localTags, ciRuns, monVars,
                statusOut, checkVars>>

OtherAt(l) == other.pc = l
OtherGoto(l) == other' = [other EXCEPT !.pc = l]

\* A second "release.sh patch" is started in another clone of origin, level
\* with origin's main and holding the tags origin has.
OtherStart ==
    /\ OtherAt("none")
    /\ remoteBranch["main"] = 2
    /\ other' = [pc |-> "check_local_tag", tags |-> DOMAIN remoteTags, commit |-> 0]
    /\ UNCHANGED <<commits, remoteVars>>
    /\ OtherFrame

\* git tag -l "$TAG" | grep -q "$TAG" in the other clone
OtherCheckLocalTag ==
    /\ OtherAt("check_local_tag")
    /\ OtherGoto(IF PatchTag \in other.tags THEN "failed" ELSE "fetch_tags")
    /\ UNCHANGED <<commits, remoteVars>>
    /\ OtherFrame

\* git fetch --tags --quiet 2>/dev/null || true in the other clone
OtherFetchTags ==
    /\ OtherAt("fetch_tags")
    /\ \E ok \in BOOLEAN :
         other' = [other EXCEPT !.pc = "check_remote_tag",
                                !.tags = IF ok THEN @ \cup DOMAIN remoteTags ELSE @]
    /\ UNCHANGED <<commits, remoteVars>>
    /\ OtherFrame

\* git ls-remote --tags origin "refs/tags/$TAG" | grep -q "$TAG" in the other
\* clone
OtherCheckRemoteTag ==
    /\ OtherAt("check_remote_tag")
    /\ \E lsRemoteOk \in BOOLEAN :
         OtherGoto(IF lsRemoteOk /\ PatchTag \in DOMAIN remoteTags THEN "failed"
                   ELSE "fetch")
    /\ UNCHANGED <<commits, remoteVars>>
    /\ OtherFrame

\* git fetch --quiet and the up-to-date check in the other clone, whose HEAD
\* is commit 2.
OtherFetch ==
    /\ OtherAt("fetch")
    /\ \E ok \in BOOLEAN :
         OtherGoto(IF ~ok \/ NotUpToDate(commits, 2, remoteBranch["main"]) THEN "failed"
                   ELSE "git_commit")
    /\ UNCHANGED <<commits, remoteVars>>
    /\ OtherFrame

\* The version write, cargo check, git add and git commit in the other clone:
\* its release commit, a child of commit 2.
OtherCommit ==
    /\ OtherAt("git_commit")
    /\ commits' = commits @@ (NewCommitId(commits) :>
           [parent |-> 2, toml |-> sed_write(commits[2].toml, V011, V012),
            lock |-> [Lock0 EXCEPT !.pkg = V012]])
    /\ other' = [other EXCEPT !.pc = "git_tag", !.commit = NewCommitId(commits)]
    /\ UNCHANGED remoteVars
    /\ OtherFrame

\* git tag -a "$TAG" in the other clone
OtherTag ==
    /\ OtherAt("git_tag")
    /\ other' = IF PatchTag \in other.tags THEN [other EXCEPT !.pc = "failed"]
                ELSE [other EXCEPT !.pc = "git_push", !.tags = @ \cup {PatchTag}]
    /\ UNCHANGED <<commits, remoteVars>>
    /\ OtherFrame

\* git push from the other clone
OtherPush ==
    /\ OtherAt("git_push")
    /\ IF remoteBranch["main"] = 0 \/ IsAncestor(commits, remoteBranch["main"], other.commit)
       THEN /\ remoteBranch' = [remoteBranch EXCEPT !["main"] = other.commit]
            /\ OtherGoto("git_push_tag")
       ELSE /\ UNCHANGED remoteBranch
            /\ OtherGoto("failed")
    /\ UNCHANGED <<commits, remoteTags>>
    /\ OtherFrame

\* git push origin "$TAG" from the other clone
OtherPushTag ==
    /\ OtherAt("git_push_tag")
    /\ IF PatchTag \notin DOMAIN remoteTags
       THEN /\ remoteTags' = remoteTags @@ (PatchTag :> other.commit)
            /\ OtherGoto("done")
       ELSE /\ UNCHANGED remoteTags
            /\ OtherGoto("failed")
    /\ UNCHANGED <<commits, remoteBranch>>
    /\ OtherFrame

\* "release.sh --no-monitor patch" from 0.1.1 in the expected repository.
InitOverlap ==
    /\ FreshProcess
    /\ cmd = "release" /\ BUMP_TYPE = "patch" /\ NO_MONITOR = TRUE /\ CMD_ARG = <<>>
    /\ DefaultRepo(StdManifest(V011))
    /\ remoteTags = (OldTag :> 1)
    /\ release = NoRelease
    /\ args = CommandLine(cmd, BUMP_TYPE, NO_MONITOR, CMD_ARG) /\ argv = <<>>
    /\ pre = [toml |-> wtToml, lock |-> wtLock, dirty |-> otherDirty,
              staged |-> FALSE,
              head |-> head, commits |-> commits, localTags |-> localTags,
              originMain |-> originMain,
              remoteBranch |-> remoteBranch, remoteTags |-> remoteTags]

NextOverlap ==
    \/ Dispatch
    \/ ReadVersion \/ ComputeVersion
    \/ CheckDirty \/ CheckStaged \/ CheckLocalTag \/ FetchTags \/ CheckRemoteTag
    \/ BranchCheck \/ FetchOrigin \/ UpToDate
    \/ WriteVersion \/ CargoCheck \/ CommitMessage \/ FinalConfirm
    \/ GitAdd \/ GitCommit \/ GitTag \/ GitPush \/ GitPushTag
    \/ AutoMonitor
    \/ OtherStart \/ OtherCheckLocalTag \/ OtherFetchTags \/ OtherCheckRemoteTag
    \/ OtherFetch \/ OtherCommit \/ OtherTag \/ OtherPush \/ OtherPushTag

SpecOverlap == InitOverlap /\ [][NextOverlap]_vars

\* The tag is nowhere yet: not in either clone, not on origin.
TagNotCreated ==
    /\ PatchTag \notin DOMAIN localTags
    /\ PatchTag \notin DOMAIN remoteTags
    /\ PatchTag \notin other.tags

\* C31: nothing excludes a second invocation. Each tag check passes whenever
\* the tag is not there at the moment it looks, wherever the other invocation
\* stands; so two invocations for one version can both be past the checks
\* with the tag not yet created, and only the refusal of the later push
\* tells them apart: the tag reaches origin from one of them at most.
C31_TagChecksIgnoreOtherInvocation ==
    /\ [][(pc = "check_local_tag" /\ pc' # pc /\ TAG \notin DOMAIN localTags)
            => pc' = "fetch_tags"]_vars
    /\ [][(pc = "check_remote_tag" /\ pc' # pc /\ TAG \notin DOMAIN remoteTags)
            => pc' = "branch_check"]_vars
    /\ [][(other.pc = "check_local_tag" /\ other'.pc # other.pc /\ PatchTag \notin other.tags)
            => other'.pc = "fetch_tags"]_vars
    /\ [][(other.pc = "check_remote_tag" /\ other'.pc # other.pc
             /\ PatchTag \notin DOMAIN remoteTags)
            => other'.pc = "fetch"]_vars
    /\ [](~(StepDone("push_tag") /\ other.pc = "done"))

\* Both invocations have passed their tag checks for v0.1.2 and stand at
\* git tag, and the tag exists nowhere.
C31_Witness ==
    /\ pc = "git_tag" /\ other.pc = "git_tag"
    /\ TAG = PatchTag
    /\ TagNotCreated

====
